---- MODULE Spec2Model ----
(***************************************************************************)
(* A model of the notification dispatch engine of the timetable bot        *)
(* (notifications.py), of the state store it reads (data_manager.py,       *)
(* models.py) and of the schedule lookups it uses (schedule_logic.py,      *)
(* config.py).                                                             *)
(*                                                                         *)
(* Python values are modelled as follows.  A dict is a function whose      *)
(* domain is the set of its keys; d.get(k, default) is Get(d, k, default). *)
(* None is the string "None" where the other values are strings and NoMsg  *)
(* (0) where they are message ids.  A raised exception is a value: an      *)
(* operation returns [raised |-> <exception class or None>, ...].          *)
(*                                                                         *)
(* Specifications:                                                         *)
(*   Spec        the three campaigns as the job queue runs them            *)
(*               (bot.py:194-226), over every store of InitialUsers x      *)
(*               InitialGroupChats and every instant of the clock.         *)
(*   SpecSendScheduleMessage, SpecSendSimpleReminder                       *)
(*               the helper coroutines of NotificationService that talk    *)
(*               to the platform (_send_schedule_message, and               *)
(*               _send_simple_reminder with handle_telegram_error), each   *)
(*               applied on its own to every recipient of the store.       *)
(***************************************************************************)
EXTENDS Integers, Sequences, FiniteSets, TLC

None == "None"
NoMsg == 0

\* The platform hands out message ids 1..MaxMessages.
MaxMessages == 2

UserIds == {"u1", "u2"}
ChatIds == {"c1", "c2"}

(***************************************************************************)
(* Python dict helpers.                                                    *)
(***************************************************************************)
\* The empty dict.
EmptyDict == << >>

\* dict.get(key, default)
Get(d, k, default) == IF k \in DOMAIN d THEN d[k] ELSE default

\* dict.update(other)
Update(d, other) ==
    [k \in (DOMAIN d) \cup (DOMAIN other) |->
        IF k \in DOMAIN other THEN other[k] ELSE d[k]]

\* Truth value of an Optional[str]: None and "" are false.
TruthyStr(v) == v # None /\ v # ""

(***************************************************************************)
(* config.py                                                               *)
(***************************************************************************)
\* DAYS_UA, keyed 0..6 (the tuple is indexed from 1): the Ukrainian weekday
\* names, transliterated.
DAYS_UA ==
    <<"ponedilok", "vivtorok", "sereda", "chetver", "pyatnytsya", "subota",
      "nedilya">>

\* DAYS_UA.get(weekday)
DayName(weekday) == IF weekday \in 0..6 THEN DAYS_UA[weekday + 1] ELSE None

\* LESSON_TIMES: pair -> <<start, end>>
LESSON_TIMES ==
    <<  <<"08:00", "09:20">>, <<"09:30", "10:50">>, <<"11:10", "12:30">>,
        <<"12:40", "14:00">>, <<"14:10", "15:30">>, <<"15:40", "17:00">>,
        <<"17:10", "18:30">>, <<"18:40", "20:00">> >>

\* config.max_concurrent_notifications (default)
max_concurrent_notifications == 10

(***************************************************************************)
(* The clock.  A date is a day number, day 0 being a Monday; a time of day *)
(* is a minute of the day.  The clock steps through the instants of        *)
(* ClockInstants (index clock): a Monday of week 1 at 07:00, 08:00, 08:01  *)
(* and 09:20, the Sunday after it at 07:00 and 09:20, and the Monday of    *)
(* week 2 at 07:00.                                                        *)
(***************************************************************************)
Instant(day, minute) == [day |-> day, minute |-> minute]
ClockInstants ==
    << Instant(0, 420), Instant(0, 480), Instant(0, 481), Instant(0, 560),
       Instant(6, 420), Instant(6, 560), Instant(7, 420) >>

Digits == <<"0", "1", "2", "3", "4", "5", "6", "7", "8", "9">>
TwoDigits(n) == Digits[(n \div 10) + 1] \o Digits[(n % 10) + 1]

\* NotificationService._format_time: dt.strftime("%H:%M")
FormatTime(minute_of_day) ==
    TwoDigits(minute_of_day \div 60) \o ":" \o TwoDigits(minute_of_day % 60)

\* datetime.weekday(): Monday is 0
Weekday(date) == date % 7

(***************************************************************************)
(* models.py                                                               *)
(***************************************************************************)
\* Field(pattern=r'^([01]?[0-9]|2[0-3]):[0-5][0-9]$') and validate_time_format
MatchingTimes ==
    {TwoDigits(h) \o ":" \o TwoDigits(m) : h \in 0..23, m \in 0..59}
        \cup {Digits[h + 1] \o ":" \o TwoDigits(m) : h \in 0..9, m \in 0..59}

TimePattern(v) == v \in MatchingTimes

\* The values a datetime field accepts (a datetime, here the instant of the
\* call, or a text in ISO format); any other text raises ValidationError.
DatetimeValues == {"now", "2026-09-01T07:00:00"}

\* The fields of UserModel with their defaults.
UserModelDefaults ==
    [group |-> None, reminder_time |-> None, reminder_enabled |-> TRUE,
     next_lesson_notification |-> TRUE, next_lesson_time |-> None,
     registration_date |-> None, last_activity |-> None]

\* UserModel.model_construct(**data): the fields, not validated.
UserModel_construct(data) ==
    [raised |-> None,
     model |-> [cls |-> "UserModel",
                fields |-> [k \in DOMAIN UserModelDefaults |->
                               Get(data, k, UserModelDefaults[k])]]]

\* UserModel.model_validate(data): the declared fields are read from data
\* (the default where the key is missing), every other key is dropped
\* (pydantic's default extra='ignore'), and a time that does not match the
\* pattern, or a date that is no datetime, raises ValidationError.
UserModel_validate(data) ==
    LET fields == [k \in DOMAIN UserModelDefaults |-> Get(data, k, UserModelDefaults[k])]
        bad(t) == t # None /\ ~TimePattern(t)
        bad_date(d) == d \notin DatetimeValues \cup {None}
    IN  IF \/ bad(fields.reminder_time) \/ bad(fields.next_lesson_time)
           \/ bad_date(fields.registration_date) \/ bad_date(fields.last_activity)
        THEN [raised |-> "ValidationError", model |-> [cls |-> "UserModel", fields |-> UserModelDefaults]]
        ELSE [raised |-> None, model |-> [cls |-> "UserModel", fields |-> fields]]

\* The fields of GroupChatModel with their defaults.
GroupChatModelDefaults ==
    [default_group |-> None, enabled |-> TRUE, last_schedule_sent |-> None]

\* GroupChatModel.model_validate(data): as for UserModel; last_schedule_sent
\* is an optional datetime.
GroupChatModel_validate(data) ==
    LET fields == [k \in DOMAIN GroupChatModelDefaults |->
                      Get(data, k, GroupChatModelDefaults[k])]
    IN  IF fields.last_schedule_sent \notin DatetimeValues \cup {None}
        THEN [raised |-> "ValidationError",
              model |-> [cls |-> "GroupChatModel", fields |-> GroupChatModelDefaults]]
        ELSE [raised |-> None, model |-> [cls |-> "GroupChatModel", fields |-> fields]]

\* obj.model_dump() of an entry of a collection: the dict of the fields of a
\* pydantic model; any other object (a plain dict) has no such method.
model_dump(obj) ==
    IF obj.cls \in {"UserModel", "GroupChatModel"}
    THEN [raised |-> None, value |-> obj.fields]
    ELSE [raised |-> "AttributeError", value |-> << >>]

(***************************************************************************)
(* The timetable catalog (schedule.json as _load_schedule_data keeps it).  *)
(* A LessonModel is [cls, pair, name, teacher, room, weeks], weeks a       *)
(* sorted list without repeats; cls tells the object from its dict.        *)
(***************************************************************************)
Lesson(pair, name, weeks) ==
    [cls |-> "LessonModel", pair |-> pair, name |-> name, teacher |-> None,
     room |-> None, weeks |-> weeks]

\* lesson.model_dump(): the dict of the fields.
lesson_model_dump(lesson) == [lesson EXCEPT !.cls = "dict"]

\* data_manager._schedule_data.groups: group -> GroupScheduleModel.schedule
schedule_groups ==
    [G1 |-> [ponedilok |-> << Lesson(2, "Math", <<1, 2>>),
                              Lesson(1, "Physics", <<1>>),
                              Lesson(4, "Chemistry", <<2>>) >>,
             nedilya |-> << Lesson(3, "Drawing", <<1, 2>>) >>],
     G2 |-> [ponedilok |-> << Lesson(1, "History", <<2>>) >>]]

\* data_manager.schedule_start_date: the semester's first day, when
\* schedule.json gives a startDate.
schedule_start_date == [configured |-> TRUE, date |-> 0]

(***************************************************************************)
(* data_manager.py                                                         *)
(***************************************************************************)
\* DataManager.get_day_lessons(group, day)
dm_get_day_lessons(group, day) ==
    IF group \notin DOMAIN schedule_groups THEN << >>
    ELSE Get(schedule_groups[group], day, << >>)

\* DataManager.get_all_users_data / get_all_group_chats over a collection:
\* {id: entry.model_dump()}.  An entry without model_dump raises.
get_all(collection) ==
    IF \E id \in DOMAIN collection : model_dump(collection[id]).raised # None
    THEN [raised |-> "AttributeError", value |-> << >>]
    ELSE [raised |-> None,
          value |-> [id \in DOMAIN collection |-> model_dump(collection[id]).value]]

\* The attribute dict of the entry itself: a dict the store's entry reads
\* its fields from.
instance_dict(obj) == [shared |-> TRUE, items |-> obj.fields]

\* The dict obj.model_dump() gives its caller: model_dump builds a new dict
\* on every call, so no object of the store shares it.
dumped_dict(obj) == [shared |-> FALSE, items |-> model_dump(obj).value]

\* get_all_users_data / get_all_group_chats as the caller holds the result:
\* a new dict of the dicts model_dump built.
get_all_dicts(collection) ==
    IF get_all(collection).raised # None
    THEN [raised |-> get_all(collection).raised, value |-> EmptyDict]
    ELSE [raised |-> None,
          value |-> [id \in DOMAIN collection |-> dumped_dict(collection[id])]]

\* The collection after the caller changed a dict it holds for the entry
\* `id` into `dict`: a dict an entry shares carries the change into the entry.
written_through(collection, id, dict) ==
    IF dict.shared /\ id \in DOMAIN collection
    THEN [collection EXCEPT ![id].fields = dict.items]
    ELSE collection

\* dict[key] = value
setitem(dict, key, value) == [dict EXCEPT !.items = Update(@, key :> value)]

\* del dict[key]
delitem(dict, key) ==
    [dict EXCEPT !.items = [k \in (DOMAIN @) \ {key} |-> @[k]]]

\* DataManager.update_user(user_id, **kwargs) called with the positional
\* arguments `positional` after user_id and the keyword arguments `kwargs`,
\* up to the call of save_users_data.  The signature takes no positional
\* argument after user_id: binding one raises TypeError before the body
\* runs.  The merged fields are validated before the entry is assigned:
\* ValidationError leaves the collection as it was and False is returned.
\* An entry that is no model (a plain dict a handler has put there) has no
\* model_dump: AttributeError, which the except clause does not catch.
\* `saves` tells that the call goes on to save_users_data, whose result it
\* returns.
update_user(users, user_id, positional, kwargs) ==
    IF Len(positional) > 0
    THEN [raised |-> "TypeError", users |-> users, returned |-> FALSE, saves |-> FALSE]
    ELSE IF user_id \in DOMAIN users /\ model_dump(users[user_id]).raised # None
    THEN [raised |-> model_dump(users[user_id]).raised, users |-> users,
          returned |-> FALSE, saves |-> FALSE]
    ELSE LET current == IF user_id \in DOMAIN users
                        THEN model_dump(users[user_id]).value
                        ELSE UserModelDefaults
             updated_data == Update(Update(current, kwargs), [last_activity |-> "now"])
             validated == UserModel_validate(updated_data)
         IN  IF validated.raised # None
             THEN [raised |-> None, users |-> users, returned |-> FALSE, saves |-> FALSE]
             ELSE [raised |-> None,
                   users |-> [u \in (DOMAIN users) \cup {user_id} |->
                                 IF u = user_id THEN validated.model ELSE users[u]],
                   returned |-> TRUE, saves |-> TRUE]

\* DataManager.update_group_chat(chat_id, **kwargs), called as update_user is,
\* up to the call of save_group_chats_data.
update_group_chat(chats, chat_id, positional, kwargs) ==
    IF Len(positional) > 0
    THEN [raised |-> "TypeError", chats |-> chats, returned |-> FALSE, saves |-> FALSE]
    ELSE LET current == IF chat_id \in DOMAIN chats
                        THEN model_dump(chats[chat_id]).value
                        ELSE GroupChatModelDefaults
             validated == GroupChatModel_validate(Update(current, kwargs))
         IN  IF validated.raised # None
             THEN [raised |-> None, chats |-> chats, returned |-> FALSE, saves |-> FALSE]
             ELSE [raised |-> None,
                   chats |-> [c \in (DOMAIN chats) \cup {chat_id} |->
                                 IF c = chat_id THEN validated.model ELSE chats[c]],
                   returned |-> TRUE, saves |-> TRUE]

(***************************************************************************)
(* data_manager.py and the disk.  The disk is a function from the paths of *)
(* the files that exist to their contents.  A content is                   *)
(*   [kind |-> "object", data |-> d]  a JSON document that is an object,   *)
(*   [kind |-> "array"]               a JSON document that is a list,      *)
(*   [kind |-> "torn", data |-> d]    a prefix of the text of a document,  *)
(*   [kind |-> "not_json"]            a text that is no JSON document,     *)
(*   [kind |-> "not_utf8"]            bytes that are no UTF-8 text.        *)
(***************************************************************************)
USERS_FILE == "users.json"
GROUP_CHATS_FILE == "group_chats.json"

JsonObject(data) == [kind |-> "object", data |-> data]
Torn(data) == [kind |-> "torn", data |-> data]

\* Path(filepath).with_suffix(suffix): the last suffix is replaced.
with_suffix(filepath, suffix) ==
    (IF filepath = USERS_FILE THEN "users" ELSE "group_chats") \o suffix

\* The disk `files` with the file at `path` holding `content`.
WriteFile(files, path, content) ==
    [q \in (DOMAIN files) \cup {path} |-> IF q = path THEN content ELSE files[q]]

\* Path.rename / Path.replace: the file at `source` moves to `target`,
\* replacing what was there, in one step.
MoveFile(files, source, target) ==
    [q \in ((DOMAIN files) \ {source}) \cup {target} |->
        IF q = target THEN files[source] ELSE files[q]]

\* json.load of a file's content: the document, or the exception raised.
json_load(content) ==
    IF content.kind \in {"object", "array"} THEN [raised |-> None, value |-> content]
    ELSE IF content.kind = "not_utf8" THEN [raised |-> "UnicodeDecodeError", value |-> None]
    ELSE [raised |-> "JSONDecodeError", value |-> None]

\* DataManager._load_json_file(filepath, {}) on the disk `files` at the
\* second `timestamp`: the document read (the empty object when the file is
\* missing or cannot be read) and the disk afterwards.  Only JSONDecodeError
\* moves the file aside; any other exception leaves it in place.
load_json_file(files, filepath, timestamp) ==
    IF filepath \notin DOMAIN files
    THEN [value |-> JsonObject(EmptyDict), files |-> files, logged |-> "warning"]
    ELSE LET loaded == json_load(files[filepath])
             backup_path == with_suffix(filepath, ".backup_" \o timestamp)
         IN  IF loaded.raised = None
             THEN [value |-> loaded.value, files |-> files, logged |-> None]
             ELSE IF loaded.raised = "JSONDecodeError"
             THEN [value |-> JsonObject(EmptyDict),
                   files |-> MoveFile(files, filepath, backup_path), logged |-> "error"]
             ELSE [value |-> JsonObject(EmptyDict), files |-> files, logged |-> "error"]

\* The loop of _load_users_data / _load_group_chats_data over the document
\* read: raw_data.items() exists only for an object (AttributeError for a
\* list); every entry is validated by the model `cls`, and an entry that
\* fails validation becomes the default model.
load_collection(files, filepath, timestamp, cls) ==
    LET read == load_json_file(files, filepath, timestamp)
    IN  IF read.value.kind # "object"
        THEN [raised |-> "AttributeError", collection |-> EmptyDict, files |-> read.files]
        ELSE [raised |-> None,
              collection |-> [id \in DOMAIN read.value.data |->
                                 IF cls = "UserModel"
                                 THEN UserModel_validate(read.value.data[id]).model
                                 ELSE GroupChatModel_validate(read.value.data[id]).model],
              files |-> read.files]

load_users_data(files, timestamp) ==
    load_collection(files, USERS_FILE, timestamp, "UserModel")

load_group_chats_data(files, timestamp) ==
    load_collection(files, GROUP_CHATS_FILE, timestamp, "GroupChatModel")

\* The document save_users_data / save_group_chats_data hands to
\* _save_json_file: {id: entry.model_dump(mode='json')}.
saved_document(collection) == JsonObject(get_all(collection).value)

\* A save that writes into the target itself.
target_path(filepath) == filepath

\* _save_json_file: the path the document is written to before it replaces
\* the target.
temp_path(filepath) == with_suffix(filepath, ".tmp")

(***************************************************************************)
(* schedule_logic.py                                                       *)
(***************************************************************************)
\* A week count that rounds the number of weeks towards zero.
current_week_truncating(start_date, target_date) ==
    LET delta_days == target_date - start_date.date
        weeks == IF delta_days >= 0 THEN delta_days \div 7 ELSE 0 - ((0 - delta_days) \div 7)
    IN  IF ~start_date.configured THEN 1 ELSE (weeks % 2) + 1

\* ScheduleService.get_current_week(target_date) when
\* data_manager.schedule_start_date is start_date: Python's // rounds down.
current_week(start_date, target_date) ==
    IF ~start_date.configured THEN 1
    ELSE (((target_date - start_date.date) \div 7) % 2) + 1

\* ScheduleService.get_current_week(target_date)
get_current_week(target_date) == current_week(schedule_start_date, target_date)

\* A list left in the order of the catalog.
Unsorted(lessons) == lessons

\* list.sort(key=lambda x: x.pair): a stable sort by pair number.
RECURSIVE SortByPair(_)
SortByPair(lessons) ==
    IF lessons = << >> THEN << >>
    ELSE LET least == CHOOSE i \in 1..Len(lessons) :
                          /\ \A j \in 1..Len(lessons) : lessons[i].pair <= lessons[j].pair
                          /\ \A j \in 1..(i - 1) : lessons[j].pair # lessons[i].pair
             rest == [k \in 1..(Len(lessons) - 1) |->
                         IF k < least THEN lessons[k] ELSE lessons[k + 1]]
         IN  <<lessons[least]>> \o SortByPair(rest)

\* ScheduleService.get_day_lessons(group, day, week)
get_day_lessons(group, day, week) ==
    LET lessons == dm_get_day_lessons(group, day)
        in_week(lesson) == \E i \in 1..Len(lesson.weeks) : lesson.weeks[i] = week
    IN  SortByPair(SelectSeq(lessons, in_week))

\* ScheduleService.get_day_lessons(group, day, week) over the catalog
\* `catalog` (data_manager's groups): what it returns and the catalog
\* afterwards.  The lessons of the week are collected in a new list, and it
\* is that list which is sorted.
get_day_lessons_call(catalog, group, day, week) ==
    LET lessons == IF group \notin DOMAIN catalog THEN << >>
                   ELSE Get(catalog[group], day, << >>)
        in_week(lesson) == \E i \in 1..Len(lesson.weeks) : lesson.weeks[i] = week
    IN  [returned |-> SortByPair(SelectSeq(lessons, in_week)), catalog |-> catalog]

\* The minute of the day a text "HH:MM" stands for.  Python compares the
\* texts character by character; both sides are zero-padded (LESSON_TIMES,
\* strftime("%H:%M")), so the order of the texts is that of the minutes.
TimeTexts24 == [m \in 0..1439 |-> FormatTime(m)]
TimeOfDay(text) == CHOOSE m \in 0..1439 : TimeTexts24[m] = text

starts_at_or_after(lesson_start_time, current_time) ==
    TimeOfDay(lesson_start_time) >= TimeOfDay(current_time)

\* lesson_start_time > current_time
starts_after(lesson_start_time, current_time) ==
    TimeOfDay(lesson_start_time) > TimeOfDay(current_time)

\* ScheduleService.get_next_lesson(group), called without target_time as
\* every caller does: target_time and the date of get_current_week are both
\* the instant `now` of the wall clock.  DAYS_UA names all seven weekdays.
get_next_lesson(group, now) ==
    LET day_name == DayName(Weekday(now.day))
        lessons_today == get_day_lessons(group, day_name, get_current_week(now.day))
        current_time == FormatTime(now.minute)
        start(lesson) == IF lesson.pair \in 1..Len(LESSON_TIMES)
                         THEN LESSON_TIMES[lesson.pair][1] ELSE "00:00"
        later == {i \in 1..Len(lessons_today) :
                     starts_after(start(lessons_today[i]), current_time)}
    IN  IF day_name = None \/ lessons_today = << >> \/ later = {}
        THEN [found |-> FALSE]
        ELSE [found |-> TRUE,
              lesson |-> lessons_today[CHOOSE i \in later : \A j \in later : i <= j]]

\* A slot without its last minute.
within_before_end(start_time, current_time, end_time) ==
    /\ TimeOfDay(start_time) <= TimeOfDay(current_time)
    /\ TimeOfDay(current_time) < TimeOfDay(end_time)

\* start_time <= current_time <= end_time, on zero-padded HH:MM texts.
within(start_time, current_time, end_time) ==
    /\ TimeOfDay(start_time) <= TimeOfDay(current_time)
    /\ TimeOfDay(current_time) <= TimeOfDay(end_time)

\* ScheduleService.get_current_lesson(group) at the instant `now` of the
\* wall clock: the first lesson of today's sorted list whose slot holds
\* now's time of day.
get_current_lesson(group, now) ==
    LET day_name == DayName(Weekday(now.day))
        lessons_today == get_day_lessons(group, day_name, get_current_week(now.day))
        current_time == FormatTime(now.minute)
        slot(lesson) == IF lesson.pair \in 1..Len(LESSON_TIMES)
                        THEN LESSON_TIMES[lesson.pair] ELSE <<"00:00", "00:00">>
        running == {i \in 1..Len(lessons_today) :
                       within(slot(lessons_today[i])[1], current_time,
                              slot(lessons_today[i])[2])}
    IN  IF day_name = None \/ running = {}
        THEN [found |-> FALSE]
        ELSE [found |-> TRUE,
              lesson |-> lessons_today[CHOOSE i \in running : \A j \in running : i <= j]]

\* config.get_lesson_time_display(pair_number)
get_lesson_time_display(pair_number) ==
    IF pair_number \in 1..Len(LESSON_TIMES)
    THEN LESSON_TIMES[pair_number][1] \o " - " \o LESSON_TIMES[pair_number][2]
    ELSE "??:?? - ??:??"

\* ScheduleService.format_schedule_text(group, day, lessons, week): what the
\* text shows.  The loop reads lesson.pair, lesson.name, ... as attributes,
\* which a dict does not have.
format_schedule_text(group, day, lessons, week) ==
    IF lessons = << >>
    THEN [raised |-> None, value |-> [kind |-> "no_lessons", day |-> day, week |-> week]]
    ELSE IF \E i \in 1..Len(lessons) : lessons[i].cls # "LessonModel"
    THEN [raised |-> "AttributeError", value |-> None]
    ELSE [raised |-> None,
          value |-> [kind |-> "schedule", group |-> group, day |-> day, week |-> week,
                     lessons |-> [i \in 1..Len(lessons) |->
                                    [pair |-> lessons[i].pair,
                                     time |-> get_lesson_time_display(lessons[i].pair),
                                     name |-> lessons[i].name,
                                     teacher |-> lessons[i].teacher,
                                     room |-> lessons[i].room]]]]

\* The methods of class ScheduleService, on which the attribute lookup
\* schedule_service.<name> succeeds.  get_day_schedule and the other names
\* defined after line 339 are functions of the module, not attributes of
\* the instance.
ScheduleServiceMethods ==
    {"get_current_week", "is_group_chat", "get_user_group", "get_day_lessons",
     "format_schedule_text", "get_next_lesson", "get_current_lesson",
     "get_week_schedule", "time_until_lesson"}

\* schedule_service.get_day_schedule(group, day, week) as notifications.py
\* calls it: the attribute lookup on the ScheduleService instance.
call_get_day_schedule(group, day, week) ==
    IF "get_day_schedule" \in ScheduleServiceMethods
    THEN [raised |-> None, value |-> get_day_lessons(group, day, week)]
    ELSE [raised |-> "AttributeError", value |-> << >>]


(***************************************************************************)
(* State.                                                                  *)
(***************************************************************************)
VARIABLES
    users_data,         \* DataManager._users_data: user id -> entry
    group_chats_data,   \* DataManager._group_chats_data: chat id -> entry
    clock,              \* index into ClockInstants
    sent,               \* the platform: messages delivered, [chat_id, message_id, text]
    pinned,             \* the platform: messages now pinned, [chat_id, message_id]
    next_message_id,    \* the platform: the id the next message gets
    jobs,               \* the job queue: pending deletion jobs, [name, chat_id, message_id, delay, due]
    ms,                 \* the running send_morning_schedule, its locals
    dr,                 \* the running send_daily_reminders, its locals
    nl,                 \* the running send_next_lesson_notifications, its locals
    nlp,                \* its _send_personal_next_lesson_notifications
    nlg,                \* its _send_group_next_lesson_notifications
    ssm,                \* chat id -> the call of _send_schedule_message for it
    ssr,                \* user id -> the call of _send_simple_reminder for it
    elapsed,            \* the job queue's clock: seconds since the start
    history,            \* the job queue's log: (chat id, message id) -> its events in order
    callbacks,          \* the delete_message_callback runs suspended on delete_message
    fs,                 \* the disk: path -> content of the file
    dm,                 \* the DataManager process: down, idle, or inside a save
    accessed,           \* the accesses to the collections in the last DataManager call
    svc,                \* the ScheduleService: the catalog and the last call made
    dispatched,         \* the last update the dispatcher gave to a handler, and its outcome
    held                \* the dict get_all_users_data / get_all_group_chats returned to its caller

store_vars == <<users_data, group_chats_data>>
clock_vars == <<clock>>
platform_vars == <<sent, pinned, next_message_id, jobs>>
campaign_vars == <<ms, dr, nl, nlp, nlg>>
helper_vars == <<ssm, ssr>>
lifecycle_vars == <<elapsed, history, callbacks>>
disk_vars == <<fs, dm, accessed>>
service_vars == <<svc>>
handler_vars == <<dispatched>>
caller_vars == <<held>>
vars == <<users_data, group_chats_data, clock, sent, pinned,
          next_message_id, jobs, ms, dr, nl, nlp, nlg, ssm, ssr, elapsed, history,
          callbacks, fs, dm, accessed, svc, dispatched, held>>

Today == ClockInstants[clock].day
Now == ClockInstants[clock].minute

\* A coroutine that is not running.
Idle == [pc |-> "idle"]

\* The ScheduleService before any call: the catalog as loaded.
NoCall == [call |-> "none", catalog |-> schedule_groups]

\* No update was dispatched yet.
NoUpdate == [handler |-> "none"]

\* No caller holds a dict of get_all_users_data / get_all_group_chats.
NoSnapshot == [call |-> "none", raised |-> None, value |-> EmptyDict, last |-> "none"]

(***************************************************************************)
(* The stores the bot can start from: _load_users_data and                 *)
(* _load_group_chats_data validate every entry of the file into a model.   *)
(***************************************************************************)
Profile(group, reminder_time, flag) ==
    UserModel_validate([group |-> group, reminder_time |-> reminder_time,
                        reminder_enabled |-> flag,
                        next_lesson_notification |-> flag]).model

Binding(group) == GroupChatModel_validate([default_group |-> group]).model

InitialUsers ==
    { [u \in D |-> IF u = "u1" THEN p ELSE Profile("G2", "08:00", TRUE)] :
        D \in {{"u1"}, {"u1", "u2"}},
        p \in {Profile(None, "08:00", TRUE), Profile("G1", None, TRUE),
                Profile("G1", "08:00", TRUE), Profile("G1", "08:00", FALSE)} }

\* The disk after both collections were saved.
StoredFiles(users, chats) ==
    WriteFile(WriteFile(EmptyDict, USERS_FILE, saved_document(users)),
              GROUP_CHATS_FILE, saved_document(chats))

InitialGroupChats ==
    { [c \in D |-> IF c = "c1" THEN Binding(g) ELSE Binding("G2")] :
        D \in {{"c1"}, {"c1", "c2"}}, g \in {None, "G1"} }

Init ==
    /\ users_data \in InitialUsers
    /\ group_chats_data \in InitialGroupChats
    /\ clock = 1
    /\ sent = {}
    /\ pinned = {}
    /\ next_message_id = 1
    /\ jobs = {}
    /\ ms = Idle
    /\ dr = Idle
    /\ nl = Idle
    /\ nlp = Idle
    /\ nlg = Idle
    /\ ssm = [c \in ChatIds |-> Idle]
    /\ ssr = [u \in UserIds |-> Idle]
    /\ elapsed = 0
    /\ history = << >>
    /\ callbacks = {}
    /\ fs = StoredFiles(users_data, group_chats_data)
    /\ dm = Idle
    /\ accessed = {}
    /\ svc = NoCall
    /\ dispatched = NoUpdate
    /\ held = NoSnapshot

\* Time passes: the next instant of the clock.
Tick ==
    /\ clock < Len(ClockInstants)
    /\ clock' = clock + 1
    /\ UNCHANGED <<caller_vars, handler_vars, service_vars, lifecycle_vars, disk_vars, store_vars, platform_vars, campaign_vars, helper_vars>>

(***************************************************************************)
(* Fan-out: asyncio.gather with return_exceptions=True over the recipient   *)
(* tasks.  A task that does not await anything runs from its start to its  *)
(* end in one step of the event loop; the tasks of one gather, and those   *)
(* of different campaigns, are taken in any order.                         *)
(*                                                                         *)
(* The outcome of a task: what it returned, the exception its own          *)
(* try/except logged, and the platform call it is suspended on (None when  *)
(* it ran to its end).                                                     *)
(***************************************************************************)
Outcome(returned, logged, awaits) ==
    [returned |-> returned, logged |-> logged, awaits |-> awaits]

\* A gather that gives up the batch when a task has failed: the variant
\* C7 rules out.
AfterTaskAbort(pending, id, outcome) ==
    IF outcome.logged # None THEN {} ELSE pending \ {id}

\* A gather that never takes a task that has failed for finished.
AfterTaskStuck(pending, id, outcome) ==
    IF outcome.logged # None THEN pending ELSE pending \ {id}

\* The tasks still to run once task `id` has ended with `outcome`: the
\* exception of one task is caught in the task (or collected by gather) and
\* the other tasks stay scheduled.
AfterTask(pending, id, outcome) == pending \ {id}


(***************************************************************************)
(* notifications.py: the morning digest.                                   *)
(***************************************************************************)
\* _remove_old_pinned_message(context, chat_id, chat_info): the platform call
\* it awaits first, None when chat_info holds no pinned id and it returns at
\* once.
remove_old_pinned_message(chat_info) ==
    IF Get(chat_info, "pinned_schedule_message_id", NoMsg) # NoMsg
    THEN "unpin_chat_message"
    ELSE None

\* The digest task without its check of the group: the variant C11 rules
\* out.
send_morning_schedule_to_chat_any(chat_info, day_name, week) ==
    LET lessons == call_get_day_schedule(Get(chat_info, "default_group", None), day_name, week)
    IN  IF lessons.raised # None THEN Outcome(FALSE, lessons.raised, None)
        ELSE Outcome(FALSE, None, "send_message")

\* The text of _send_no_lessons_message: what it shows.
no_lessons_message(group_name, day_name) ==
    [kind |-> "no_lessons_today", group |-> group_name, day |-> day_name]

\* _send_morning_schedule_to_chat, from its start to its first platform
\* call or to its end.  chat_info is the chat's entry of the snapshot
\* get_all_group_chats() returned.
send_morning_schedule_to_chat(chat_info, day_name, week) ==
    LET group_name == Get(chat_info, "default_group", None)
        lessons == call_get_day_schedule(group_name, day_name, week)
    IN  IF ~TruthyStr(group_name) THEN Outcome(FALSE, None, None)
        ELSE IF remove_old_pinned_message(chat_info) # None
        THEN Outcome(FALSE, None, remove_old_pinned_message(chat_info))
        ELSE IF lessons.raised # None THEN Outcome(FALSE, lessons.raised, None)
        ELSE Outcome(FALSE, None, "send_message")

\* The time of day the job queue runs send_morning_schedule at.
morning_time == "07:00"

\* A test that takes every day that has a name for a working day.
unnamed_day(day_name, weekday) == day_name = None

\* if not day_name or today.weekday() == 6: the digest is not sent.
rest_day(day_name, weekday) == day_name = None \/ weekday = 6

\* send_morning_schedule up to its gather.
MorningStart ==
    /\ ms.pc = "idle"
    /\ FormatTime(Now) = morning_time
    /\ LET weekday == Weekday(Today)
           day_name == DayName(weekday)
           group_chats == get_all(group_chats_data)
       IN  IF rest_day(day_name, weekday) THEN UNCHANGED ms
           ELSE IF group_chats.raised # None THEN UNCHANGED ms
           ELSE IF DOMAIN group_chats.value = {} THEN UNCHANGED ms
           ELSE ms' = [pc |-> "gather",
                       day_name |-> day_name,
                       week |-> get_current_week(Today),
                       group_chats |-> group_chats.value,
                       pending |-> DOMAIN group_chats.value,
                       results |-> EmptyDict]
    /\ UNCHANGED <<caller_vars, handler_vars, service_vars, lifecycle_vars, disk_vars, store_vars, clock_vars, platform_vars, dr, nl, nlp, nlg, helper_vars>>

\* One task of the gather: _send_morning_schedule_to_chat for chat_id.
MorningChatTask(chat_id) ==
    /\ ms.pc = "gather"
    /\ chat_id \in ms.pending
    /\ LET outcome == send_morning_schedule_to_chat(ms.group_chats[chat_id], ms.day_name, ms.week)
       IN  ms' = [ms EXCEPT !.pending = AfterTask(@, chat_id, outcome),
                            !.results = (chat_id :> outcome) @@ @]
    /\ UNCHANGED <<caller_vars, handler_vars, service_vars, lifecycle_vars, disk_vars, store_vars, clock_vars, platform_vars, dr, nl, nlp, nlg, helper_vars>>

\* Every task has ended.
GatherComplete(run) ==
    /\ run.pc = "gather"
    /\ run.pending = {}
    /\ \A id \in DOMAIN run.results : run.results[id].awaits = None

\* The gather returns and send_morning_schedule ends.
MorningReturn ==
    /\ GatherComplete(ms)
    /\ ms' = Idle
    /\ UNCHANGED <<caller_vars, handler_vars, service_vars, lifecycle_vars, disk_vars, store_vars, clock_vars, platform_vars, dr, nl, nlp, nlg, helper_vars>>

(***************************************************************************)
(* notifications.py: the personal daily reminder.                          *)
(***************************************************************************)
\* _get_users_for_daily_reminder(current_time)
get_users_for_daily_reminder(users, current_time) ==
    LET all_users == get_all(users)
        selected(user_data) ==
            /\ Get(user_data, "daily_reminder", FALSE)
            /\ Get(user_data, "reminder_time", None) = current_time
            /\ TruthyStr(Get(user_data, "group", None))
            /\ Get(user_data, "active", TRUE)
    IN  IF all_users.raised # None THEN [raised |-> all_users.raised, value |-> EmptyDict]
        ELSE [raised |-> None,
              value |-> [u \in {id \in DOMAIN all_users.value : selected(all_users.value[id])}
                            |-> all_users.value[u]]]

\* send_daily_reminders: the selection, and the return when it is empty.
DailyReminders ==
    /\ dr.pc = "idle"
    /\ LET current_time == FormatTime(Now)
           tomorrow == Today + 1
           users_to_notify == get_users_for_daily_reminder(users_data, current_time)
       IN  dr' = [pc |-> IF users_to_notify.raised = None /\ DOMAIN users_to_notify.value # {}
                         THEN "gather" ELSE "return",
                  current_time |-> current_time,
                  tomorrow |-> tomorrow,
                  day_name |-> DayName(Weekday(tomorrow)),
                  raised |-> users_to_notify.raised,
                  users_to_notify |-> users_to_notify.value,
                  pending |-> DOMAIN users_to_notify.value,
                  results |-> EmptyDict]
    /\ UNCHANGED <<caller_vars, handler_vars, service_vars, lifecycle_vars, disk_vars, store_vars, clock_vars, platform_vars, ms, nl, nlp, nlg, helper_vars>>

\* send_daily_reminders ends.
DailyReturn ==
    /\ IF dr.pc = "gather" THEN GatherComplete(dr) ELSE dr.pc = "return"
    /\ dr' = Idle
    /\ UNCHANGED <<caller_vars, handler_vars, service_vars, lifecycle_vars, disk_vars, store_vars, clock_vars, platform_vars, ms, nl, nlp, nlg, helper_vars>>


(***************************************************************************)
(* notifications.py: the next-lesson alert.                                *)
(***************************************************************************)
\* The start times of the slots, keyed as lesson_end_times is: the variant
\* C9 rules out.
lesson_start_times == [pair \in 1..Len(LESSON_TIMES) |-> LESSON_TIMES[pair][1]]

\* lesson_end_times = {pair: end_time for pair, (_, end_time) in LESSON_TIMES.items()}
lesson_end_times == [pair \in 1..Len(LESSON_TIMES) |-> LESSON_TIMES[pair][2]]

\* next((num for num, time in lesson_end_times.items() if time == current_time), None):
\* the first pair, in the order of the dict, that ends at current_time.
pair_ending_at(current_time) ==
    LET ending == {pair \in DOMAIN lesson_end_times : lesson_end_times[pair] = current_time}
    IN  IF ending = {} THEN 0
        ELSE CHOOSE pair \in ending : \A other \in ending : pair <= other

\* _find_next_lesson(lessons, current_lesson_num): the first lesson of the
\* list with a greater pair number, None when there is none.
find_next_lesson(lessons, current_lesson_num) ==
    LET later == {i \in 1..Len(lessons) : lessons[i].pair > current_lesson_num}
    IN  IF later = {} THEN [found |-> FALSE]
        ELSE [found |-> TRUE,
              lesson |-> lessons[CHOOSE i \in later : \A j \in later : i <= j]]

\* _format_next_lesson_message(lesson): what the text shows.
format_next_lesson_message(lesson) ==
    [kind |-> "next_lesson",
     time_start |-> LESSON_TIMES[lesson.pair][1],
     time_end |-> LESSON_TIMES[lesson.pair][2],
     name |-> lesson.name,
     teacher |-> lesson.teacher,
     room |-> lesson.room]

\* The text sent when no lesson follows.
no_more_lessons_message == [kind |-> "no_more_lessons"]

\* _send_next_lesson_to_user and _send_next_lesson_to_group, from the start
\* to the first platform call or to the end.  recipient_data is the
\* recipient's dict of the snapshot, group_key the key of its group.
send_next_lesson(recipient_data, group_key, day_name, week, current_lesson_num) ==
    LET lessons_today == call_get_day_schedule(recipient_data[group_key], day_name, week)
    IN  IF lessons_today.raised # None THEN Outcome(FALSE, lessons_today.raised, None)
        ELSE Outcome(FALSE, None, "send_message")

\* send_next_lesson_notifications up to its gather of the two fan-outs.
NextLessonStart ==
    /\ nl.pc = "idle"
    /\ LET current_time == FormatTime(Now)
           day_name == DayName(Weekday(Today))
           current_lesson_num == pair_ending_at(current_time)
       IN  IF day_name = None \/ \A pair \in DOMAIN lesson_end_times :
                                     lesson_end_times[pair] # current_time
           THEN UNCHANGED <<nl, nlp, nlg>>
           ELSE IF current_lesson_num = 0 THEN UNCHANGED <<nl, nlp, nlg>>
           ELSE /\ nl' = [pc |-> "gather",
                          current_time |-> current_time,
                          day_name |-> day_name,
                          current_lesson_num |-> current_lesson_num,
                          week |-> get_current_week(Today)]
                /\ nlp' = [pc |-> "start"]
                /\ nlg' = [pc |-> "start"]
    /\ UNCHANGED <<caller_vars, handler_vars, service_vars, lifecycle_vars, disk_vars, store_vars, clock_vars, platform_vars, ms, dr, helper_vars>>

\* users_to_notify of _send_personal_next_lesson_notifications
get_users_for_next_lesson(users) ==
    LET all_users == get_all(users)
        notify(user_data) ==
            /\ Get(user_data, "lesson_notifications", TRUE)
            /\ TruthyStr(Get(user_data, "group", None))
            /\ Get(user_data, "active", TRUE)
    IN  IF all_users.raised # None THEN [raised |-> all_users.raised, value |-> EmptyDict]
        ELSE [raised |-> None,
              value |-> [u \in {id \in DOMAIN all_users.value : notify(all_users.value[id])}
                            |-> all_users.value[u]]]

\* _send_personal_next_lesson_notifications up to its gather.
NextLessonPersonalStart ==
    /\ nlp.pc = "start"
    /\ LET users_to_notify == get_users_for_next_lesson(users_data)
       IN  IF users_to_notify.raised # None
           THEN nlp' = [pc |-> "done", raised |-> users_to_notify.raised]
           ELSE IF DOMAIN users_to_notify.value = {}
           THEN nlp' = [pc |-> "done", raised |-> None]
           ELSE nlp' = [pc |-> "gather",
                        users_to_notify |-> users_to_notify.value,
                        pending |-> DOMAIN users_to_notify.value,
                        results |-> EmptyDict]
    /\ UNCHANGED <<caller_vars, handler_vars, service_vars, lifecycle_vars, disk_vars, store_vars, clock_vars, platform_vars, ms, dr, nl, nlg, helper_vars>>

\* One task of that gather: _send_next_lesson_to_user for user_id.
NextLessonUserTask(user_id) ==
    /\ nlp.pc = "gather"
    /\ user_id \in nlp.pending
    /\ LET outcome == send_next_lesson(nlp.users_to_notify[user_id], "group",
                                       nl.day_name, nl.week, nl.current_lesson_num)
       IN  nlp' = [nlp EXCEPT !.pending = AfterTask(@, user_id, outcome),
                              !.results = (user_id :> outcome) @@ @]
    /\ UNCHANGED <<caller_vars, handler_vars, service_vars, lifecycle_vars, disk_vars, store_vars, clock_vars, platform_vars, ms, dr, nl, nlg, helper_vars>>

\* _send_personal_next_lesson_notifications ends.
NextLessonPersonalReturn ==
    /\ GatherComplete(nlp)
    /\ nlp' = [pc |-> "done", raised |-> None]
    /\ UNCHANGED <<caller_vars, handler_vars, service_vars, lifecycle_vars, disk_vars, store_vars, clock_vars, platform_vars, ms, dr, nl, nlg, helper_vars>>

\* _send_group_next_lesson_notifications up to its gather.
NextLessonGroupStart ==
    /\ nlg.pc = "start"
    /\ LET group_chats == get_all(group_chats_data)
           tasks == {c \in DOMAIN group_chats.value :
                        TruthyStr(Get(group_chats.value[c], "default_group", None))}
       IN  IF group_chats.raised # None THEN nlg' = [pc |-> "done", raised |-> group_chats.raised]
           ELSE IF DOMAIN group_chats.value = {} THEN nlg' = [pc |-> "done", raised |-> None]
           ELSE nlg' = [pc |-> "gather",
                        group_chats |-> group_chats.value,
                        tasks |-> tasks,
                        pending |-> tasks,
                        results |-> EmptyDict]
    /\ UNCHANGED <<caller_vars, handler_vars, service_vars, lifecycle_vars, disk_vars, store_vars, clock_vars, platform_vars, ms, dr, nl, nlp, helper_vars>>

\* One task of that gather: _send_next_lesson_to_group for chat_id.
NextLessonGroupTask(chat_id) ==
    /\ nlg.pc = "gather"
    /\ chat_id \in nlg.pending
    /\ LET outcome == send_next_lesson(nlg.group_chats[chat_id], "default_group",
                                       nl.day_name, nl.week, nl.current_lesson_num)
       IN  nlg' = [nlg EXCEPT !.pending = AfterTask(@, chat_id, outcome),
                              !.results = (chat_id :> outcome) @@ @]
    /\ UNCHANGED <<caller_vars, handler_vars, service_vars, lifecycle_vars, disk_vars, store_vars, clock_vars, platform_vars, ms, dr, nl, nlp, helper_vars>>

\* _send_group_next_lesson_notifications ends.
NextLessonGroupReturn ==
    /\ GatherComplete(nlg)
    /\ nlg' = [pc |-> "done", raised |-> None]
    /\ UNCHANGED <<caller_vars, handler_vars, service_vars, lifecycle_vars, disk_vars, store_vars, clock_vars, platform_vars, ms, dr, nl, nlp, helper_vars>>

\* Both fan-outs have ended.
NextLessonComplete == nl.pc = "gather" /\ nlp.pc = "done" /\ nlg.pc = "done"

\* send_next_lesson_notifications ends.
NextLessonReturn ==
    /\ NextLessonComplete
    /\ nl' = Idle
    /\ nlp' = Idle
    /\ nlg' = Idle
    /\ UNCHANGED <<caller_vars, handler_vars, service_vars, lifecycle_vars, disk_vars, store_vars, clock_vars, platform_vars, ms, dr, helper_vars>>

(***************************************************************************)
(* The campaigns as the job queue runs them.                               *)
(***************************************************************************)
Next ==
    \/ Tick
    \/ MorningStart
    \/ \E chat_id \in ChatIds : MorningChatTask(chat_id)
    \/ MorningReturn
    \/ DailyReminders
    \/ DailyReturn
    \/ NextLessonStart
    \/ NextLessonPersonalStart
    \/ \E user_id \in UserIds : NextLessonUserTask(user_id)
    \/ NextLessonPersonalReturn
    \/ NextLessonGroupStart
    \/ \E chat_id \in ChatIds : NextLessonGroupTask(chat_id)
    \/ NextLessonGroupReturn
    \/ NextLessonReturn

Spec == Init /\ [][Next]_vars

\* The campaigns on the event loop: a task that is ready is run, and a
\* coroutine whose gather is complete goes on to its return.  The job queue
\* starts the campaigns when it will.  One store, with two users and with a
\* chat that is bound to a group and one that is not.
InitCampaignRun ==
    /\ Init
    /\ users_data = [u1 |-> Profile("G1", "08:00", TRUE), u2 |-> Profile("G2", "08:00", TRUE)]
    /\ group_chats_data = [c1 |-> Binding(None), c2 |-> Binding("G2")]

SpecCampaignRun ==
    /\ InitCampaignRun
    /\ [][Next]_vars
    /\ WF_vars(\E chat_id \in ChatIds : MorningChatTask(chat_id))
    /\ WF_vars(MorningReturn)
    /\ WF_vars(DailyReturn)
    /\ WF_vars(NextLessonPersonalStart)
    /\ WF_vars(\E user_id \in UserIds : NextLessonUserTask(user_id))
    /\ WF_vars(NextLessonPersonalReturn)
    /\ WF_vars(NextLessonGroupStart)
    /\ WF_vars(\E chat_id \in ChatIds : NextLessonGroupTask(chat_id))
    /\ WF_vars(NextLessonGroupReturn)
    /\ WF_vars(NextLessonReturn)

\* The tasks of a fan-out that hold its semaphore, suspended on a platform
\* call.
InFlight(run) ==
    IF run.pc = "gather"
    THEN {id \in DOMAIN run.results : run.results[id].awaits # None}
    ELSE {}

\* No task of a campaign gets as far as a platform call, so that no
\* semaphore (each fan-out makes its own, of max_concurrent_notifications
\* permits) is ever held across a step.
NoTaskSuspends ==
    \A run \in {ms, dr, nlp, nlg} :
        /\ InFlight(run) = {}
        /\ Cardinality(InFlight(run)) <= max_concurrent_notifications


(***************************************************************************)
(* The platform (the Bot API as the helpers see it) and the job queue.     *)
(***************************************************************************)
Message(chat_id, message_id, text) ==
    [chat_id |-> chat_id, message_id |-> message_id, text |-> text]

\* The TelegramError a platform call can raise: its class and whether its
\* text holds "chat not found" in some casing.
TelegramErrors ==
    { [cls |-> "Forbidden", chat_not_found |-> FALSE],
      [cls |-> "BadRequest", chat_not_found |-> TRUE],
      [cls |-> "TimedOut", chat_not_found |-> FALSE] }

\* What a platform call returns: it succeeds or it raises.
Ok == [cls |-> "ok", chat_not_found |-> FALSE]
CallResults == {Ok} \cup TelegramErrors

\* A scheduling that leaves the jobs of the same name in the queue.
schedule_message_deletion_adding(queue, message, delay_seconds, now) ==
    queue \cup {[name |-> <<"delete", message.chat_id, message.message_id>>,
                 chat_id |-> message.chat_id, message_id |-> message.message_id,
                 delay |-> delay_seconds, due |-> now + delay_seconds]}

\* A scheduling that keeps the job of the same name when there is one.
schedule_message_deletion_keeping(queue, message, delay_seconds, now) ==
    IF \E job \in queue : job.name = <<"delete", message.chat_id, message.message_id>>
    THEN queue
    ELSE schedule_message_deletion_adding(queue, message, delay_seconds, now)

\* handlers/utils.py schedule_message_deletion(message, context, delay_seconds)
\* on the job queue `queue` at the time `now`: every job of the same name is
\* removed (job.schedule_removal) and one job is added (run_once), due
\* delay_seconds later.
schedule_message_deletion(queue, message, delay_seconds, now) ==
    LET job_name == <<"delete", message.chat_id, message.message_id>>
    IN  {job \in queue : job.name # job_name}
            \cup {[name |-> job_name, chat_id |-> message.chat_id,
                   message_id |-> message.message_id, delay |-> delay_seconds,
                   due |-> now + delay_seconds]}

\* What the job queue's log holds for a registration and for a delete call,
\* and the log `log` with the event `event` added for its message.
Log(log, event) ==
    LET id == <<event.chat_id, event.message_id>>
    IN  [m \in (DOMAIN log) \cup {id} |->
            IF m = id THEN Append(IF id \in DOMAIN log THEN log[id] ELSE << >>, event)
            ELSE log[m]]

Registered(message, delay_seconds, now) ==
    [type |-> "register", chat_id |-> message.chat_id,
     message_id |-> message.message_id, at |-> now, due |-> now + delay_seconds]

DeleteCalled(job, now) ==
    [type |-> "delete", chat_id |-> job.chat_id, message_id |-> job.message_id,
     at |-> now, due |-> job.due]

\* A handling that drops the profile of a user who has blocked the bot.
handle_telegram_error_deleting(users, user_id, error) ==
    IF error.cls = "Forbidden"
    THEN [raised |-> None, users |-> [u \in (DOMAIN users) \ {user_id} |-> users[u]],
          returned |-> TRUE]
    ELSE [raised |-> None, users |-> users, returned |-> error.chat_not_found]

\* A handling that switches the reminders of the user off on any error.
handle_telegram_error_disabling(users, user_id, error) ==
    [raised |-> None,
     users |-> [u \in DOMAIN users |->
                   IF u = user_id /\ users[u].cls = "UserModel"
                   THEN [users[u] EXCEPT !.fields.reminder_enabled = FALSE] ELSE users[u]],
     returned |-> error.cls = "Forbidden" \/ error.chat_not_found]

\* NotificationService.handle_telegram_error(user_id, error, context) on the
\* users collection `users`.
handle_telegram_error(users, user_id, error) ==
    IF error.cls = "Forbidden"
    THEN LET updated == update_user(users, user_id, <<[active |-> FALSE]>>, EmptyDict)
         IN  [raised |-> updated.raised, users |-> updated.users,
              returned |-> updated.raised = None]
    ELSE IF error.chat_not_found
    THEN [raised |-> None, users |-> users, returned |-> TRUE]
    ELSE [raised |-> None, users |-> users, returned |-> FALSE]

(***************************************************************************)
(* notifications.py: one digest cycle of a chat at the helpers,            *)
(* _remove_old_pinned_message and then _send_schedule_message, applied to  *)
(* a chat of the store with the chat's entry of a fresh snapshot           *)
(* (get_all_group_chats) and the lessons of the group, as LessonModel      *)
(* objects or as their dicts.                                              *)
(***************************************************************************)
\* The dates the helper is applied for.
HelperDates == {0, 7}

\* chat_info with the id recorded whatever the pin call did: the variant
\* C1 rules out.
record_pinned_message_unchecked(chat_info, new_message_id, pin_result) ==
    Update(chat_info, [pinned_schedule_message_id |-> new_message_id])

\* chat_info after `await context.bot.pin_chat_message(...)`: line 360 sets
\* the key when the await returned, and is not reached when it raised.
record_pinned_message(chat_info, new_message_id, pin_result) ==
    IF pin_result = Ok
    THEN Update(chat_info, [pinned_schedule_message_id |-> new_message_id])
    ELSE chat_info

\* A cycle that starts with the pin call: the variant C13 rules out.
first_await_pin(chat_info, schedule_text) == "pin_chat_message"

\* Where the cycle first suspends: on the unpin of the old message, on the
\* send of the new one, or nowhere when format_schedule_text raised.
first_await(chat_info, schedule_text) ==
    IF remove_old_pinned_message(chat_info) # None
    THEN remove_old_pinned_message(chat_info)
    ELSE IF schedule_text.raised # None THEN "done"
    ELSE "send_message"

\* The two calls, up to the first await.
SendScheduleMessageCall(chat_id, date, as_dicts) ==
    /\ ssm[chat_id].pc = "idle"
    /\ chat_id \in DOMAIN group_chats_data
    /\ LET chat_info == get_all(group_chats_data).value[chat_id]
           group_name == chat_info.default_group
           day_name == DayName(Weekday(date))
           week == get_current_week(date)
           models == get_day_lessons(group_name, day_name, week)
           lessons == IF as_dicts
                      THEN [i \in 1..Len(models) |-> lesson_model_dump(models[i])]
                      ELSE models
           schedule_text == format_schedule_text(group_name, day_name, lessons, week)
       IN  /\ TruthyStr(group_name)
           /\ lessons # << >>
           /\ ssm' = [ssm EXCEPT ![chat_id] =
                         [pc |-> first_await(chat_info, schedule_text),
                          chat_info |-> chat_info,
                          text |-> schedule_text.value,
                          new_message_id |-> NoMsg,
                          send_result |-> None,
                          pin_result |-> None,
                          raised |-> schedule_text.raised]]
    /\ UNCHANGED <<caller_vars, handler_vars, service_vars, lifecycle_vars, disk_vars, store_vars, clock_vars, platform_vars, campaign_vars, ssr>>

\* send_message returns or raises.
SendScheduleMessageSent(chat_id, result) ==
    /\ ssm[chat_id].pc = "send_message"
    /\ IF result = Ok
       THEN /\ next_message_id <= MaxMessages
            /\ sent' = sent \cup {Message(chat_id, next_message_id, ssm[chat_id].text)}
            /\ next_message_id' = next_message_id + 1
            /\ ssm' = [ssm EXCEPT ![chat_id].pc = "pin_chat_message",
                                  ![chat_id].new_message_id = next_message_id,
                                  ![chat_id].send_result = result.cls]
       ELSE /\ ssm' = [ssm EXCEPT ![chat_id].pc = "done",
                                  ![chat_id].send_result = result.cls,
                                  ![chat_id].raised = result.cls]
            /\ UNCHANGED <<sent, next_message_id>>
    /\ UNCHANGED <<caller_vars, handler_vars, service_vars, lifecycle_vars, disk_vars, store_vars, clock_vars, pinned, jobs, campaign_vars, ssr>>

\* pin_chat_message returns or raises; when it returned, lines 360-361.
SendScheduleMessagePinned(chat_id, result) ==
    /\ ssm[chat_id].pc = "pin_chat_message"
    /\ LET chat_info == record_pinned_message(ssm[chat_id].chat_info,
                                              ssm[chat_id].new_message_id, result)
           saved == update_group_chat(group_chats_data, chat_id, <<chat_info>>, EmptyDict)
       IN  IF result = Ok
           THEN /\ pinned' = pinned \cup {[chat_id |-> chat_id,
                                           message_id |-> ssm[chat_id].new_message_id]}
                /\ group_chats_data' = saved.chats
                /\ ssm' = [ssm EXCEPT ![chat_id].pc = "done",
                                      ![chat_id].chat_info = chat_info,
                                      ![chat_id].pin_result = result.cls,
                                      ![chat_id].raised = saved.raised]
           ELSE /\ ssm' = [ssm EXCEPT ![chat_id].pc = "done",
                                      ![chat_id].chat_info = chat_info,
                                      ![chat_id].pin_result = result.cls,
                                      ![chat_id].raised = result.cls]
                /\ UNCHANGED <<pinned, group_chats_data>>
    /\ UNCHANGED <<caller_vars, handler_vars, service_vars, lifecycle_vars, disk_vars, users_data, clock_vars, sent, next_message_id, jobs, campaign_vars, ssr>>

\* The caller drops the frame.
SendScheduleMessageEnd(chat_id) ==
    /\ ssm[chat_id].pc = "done"
    /\ ssm' = [ssm EXCEPT ![chat_id] = Idle]
    /\ UNCHANGED <<caller_vars, handler_vars, service_vars, lifecycle_vars, disk_vars, store_vars, clock_vars, platform_vars, campaign_vars, ssr>>

(***************************************************************************)
(* notifications.py: _send_simple_reminder, applied to a user of the store.*)
(***************************************************************************)
reminder_text == [kind |-> "reminder"]

\* A helper that calls send_message once more after an error.
after_send_retrying(frame, send_result, raised) ==
    IF send_result # "ok" /\ frame.attempts = 1
    THEN [frame EXCEPT !.attempts = 2]
    ELSE [frame EXCEPT !.pc = "done", !.send_result = send_result, !.raised = raised]

\* The frame of _send_simple_reminder after send_message has returned or
\* raised: the try block holds the one call, no loop is around it, and the
\* except clause ends the helper.
after_send(frame, send_result, raised) ==
    [frame EXCEPT !.pc = "done", !.send_result = send_result, !.raised = raised]

\* The call, up to the await of send_message.
SendSimpleReminderCall(user_id) ==
    /\ ssr[user_id].pc = "idle"
    /\ user_id \in DOMAIN users_data
    /\ ssr' = [ssr EXCEPT ![user_id] =
                  [pc |-> "send_message", text |-> reminder_text,
                   send_result |-> None, raised |-> None, attempts |-> 1]]
    /\ UNCHANGED <<caller_vars, handler_vars, service_vars, lifecycle_vars, disk_vars, store_vars, clock_vars, platform_vars, campaign_vars, ssm>>

\* send_message returns (the deletion is scheduled 12 hours ahead) or
\* raises (handle_telegram_error).
SendSimpleReminderSent(user_id, result) ==
    /\ ssr[user_id].pc = "send_message"
    /\ IF result = Ok
       THEN /\ next_message_id <= MaxMessages
            /\ LET message == Message(user_id, next_message_id, ssr[user_id].text)
               IN  /\ sent' = sent \cup {message}
                   /\ jobs' = schedule_message_deletion(jobs, message, 12 * 3600, elapsed)
                   /\ history' = Log(history, Registered(message, 12 * 3600, elapsed))
            /\ next_message_id' = next_message_id + 1
            /\ ssr' = [ssr EXCEPT ![user_id] = after_send(@, result.cls, None)]
            /\ UNCHANGED users_data
       ELSE LET handled == handle_telegram_error(users_data, user_id, result)
            IN  /\ users_data' = handled.users
                /\ ssr' = [ssr EXCEPT ![user_id] = after_send(@, result.cls, handled.raised)]
                /\ UNCHANGED <<sent, jobs, next_message_id, history>>
    /\ UNCHANGED <<caller_vars, handler_vars, service_vars, elapsed, callbacks, disk_vars, group_chats_data, clock_vars, pinned, campaign_vars, ssm>>

\* The caller drops the frame.
SendSimpleReminderEnd(user_id) ==
    /\ ssr[user_id].pc = "done"
    /\ ssr' = [ssr EXCEPT ![user_id] = Idle]
    /\ UNCHANGED <<caller_vars, handler_vars, service_vars, lifecycle_vars, disk_vars, store_vars, clock_vars, platform_vars, campaign_vars, ssm>>

(***************************************************************************)
(* notifications.py: _send_daily_reminder_to_user, applied to a profile    *)
(* of the store that has a group, on the day `today`.                      *)
(***************************************************************************)
\* The days the reminder is sent on: the first day, the last two days of
\* the first parity week and the last day of the second.
ReminderDays == {0, 5, 6, 13}

\* "Завтра вихідний! ..." and "Завтра пар немає! ..."
rest_day_text == [kind |-> "rest_day_tomorrow"]
free_day_text == [kind |-> "free_day_tomorrow"]

\* f"🔔 *Нагадування*\n\n{schedule_text}"
daily_reminder_text(schedule_text) == [kind |-> "daily_reminder", schedule |-> schedule_text]

\* No text: the helper did not get to _send_simple_reminder.
no_text == [kind |-> "none"]

\* _get_tomorrow_info on the day `today`: (tomorrow, day_name)
get_tomorrow_info(today) ==
    [tomorrow |-> today + 1, day_name |-> DayName(Weekday(today + 1))]

\* _send_daily_reminder_to_user(user_id, user_data, tomorrow, day_name) up
\* to its call of _send_simple_reminder: the text it calls it with, or the
\* exception `except Exception` catches and logs (line 172).
send_daily_reminder_to_user(user_data, tomorrow, day_name) ==
    LET user_group == user_data.group
        tomorrow_week == get_current_week(tomorrow)
        lessons == call_get_day_schedule(user_group, day_name, tomorrow_week)
        schedule_text == format_schedule_text(user_group, day_name, lessons.value,
                                              tomorrow_week)
    IN  IF day_name = None THEN [logged |-> None, text |-> rest_day_text]
        ELSE IF lessons.raised # None THEN [logged |-> lessons.raised, text |-> no_text]
        ELSE IF lessons.value = << >> THEN [logged |-> None, text |-> free_day_text]
        ELSE IF schedule_text.raised # None
        THEN [logged |-> schedule_text.raised, text |-> no_text]
        ELSE [logged |-> None, text |-> daily_reminder_text(schedule_text.value)]

\* send_daily_reminders' task for a selected profile, up to the await of
\* send_message in _send_simple_reminder, or to its end.
SendDailyReminderToUser(user_id, today) ==
    /\ ssr[user_id].pc = "idle"
    /\ user_id \in DOMAIN users_data
    /\ model_dump(users_data[user_id]).raised = None
    /\ LET user_data == model_dump(users_data[user_id]).value
           info == get_tomorrow_info(today)
           outcome == send_daily_reminder_to_user(user_data, info.tomorrow, info.day_name)
       IN  /\ TruthyStr(user_data.group)
           /\ ssr' = [ssr EXCEPT ![user_id] =
                         [pc |-> IF outcome.logged = None THEN "send_message" ELSE "done",
                          text |-> outcome.text,
                          send_result |-> None, raised |-> None, attempts |-> 1,
                          logged |-> outcome.logged,
                          user_group |-> user_data.group,
                          tomorrow |-> info.tomorrow]]
    /\ UNCHANGED <<caller_vars, handler_vars, service_vars, lifecycle_vars, disk_vars, store_vars, clock_vars, platform_vars, campaign_vars, ssm>>

\* The task on its own.  No call gets to send_message, so the frames end
\* without a step of _send_simple_reminder.
NextSendDailyReminder ==
    \/ \E user_id \in UserIds, today \in ReminderDays : SendDailyReminderToUser(user_id, today)
    \/ \E user_id \in UserIds : SendSimpleReminderEnd(user_id)

SpecSendDailyReminder == Init /\ [][NextSendDailyReminder]_vars

\* _send_schedule_message on its own.
NextSendScheduleMessage ==
    \/ \E chat_id \in ChatIds, date \in HelperDates, as_dicts \in BOOLEAN :
           SendScheduleMessageCall(chat_id, date, as_dicts)
    \/ \E chat_id \in ChatIds, result \in CallResults : SendScheduleMessageSent(chat_id, result)
    \/ \E chat_id \in ChatIds, result \in CallResults : SendScheduleMessagePinned(chat_id, result)
    \/ \E chat_id \in ChatIds : SendScheduleMessageEnd(chat_id)

SpecSendScheduleMessage == Init /\ [][NextSendScheduleMessage]_vars

\* _send_simple_reminder on its own.
NextSendSimpleReminder ==
    \/ \E user_id \in UserIds : SendSimpleReminderCall(user_id)
    \/ \E user_id \in UserIds, result \in CallResults : SendSimpleReminderSent(user_id, result)
    \/ \E user_id \in UserIds : SendSimpleReminderEnd(user_id)

SpecSendSimpleReminder == Init /\ [][NextSendSimpleReminder]_vars

(***************************************************************************)
(* handlers/utils.py and the job queue: the messages the handlers show for *)
(* a while.  game_start shows its prompt as a new message or by editing    *)
(* the message of the pressed button, and schedules its deletion at the    *)
(* default delay; cancel_conversation does the same with a delay of 60     *)
(* seconds, so a message whose deletion is pending is scheduled again.     *)
(***************************************************************************)
MaxElapsed == 1260
MaxRegistrations == 2

\* schedule_message_deletion's default delay_seconds
default_delay_seconds == 20 * 60
\* the delay cancel_conversation passes
cancel_delay_seconds == 60

\* Two records of the same chat id and message id.
SameMessage(a, b) == a.chat_id = b.chat_id /\ a.message_id = b.message_id

game_prompt == [kind |-> "game_prompt"]
cancelled_text == [kind |-> "cancelled"]

Registrations ==
    Cardinality({e \in UNION {{<<m, i>> : i \in DOMAIN history[m]} : m \in DOMAIN history} :
                    history[e[1]][e[2]].type = "register"})

\* What delete_message returns for a message: a message that is gone raises
\* BadRequest ("message to delete not found"), which is no "chat not found".
MessageNotFound == [cls |-> "BadRequest", chat_not_found |-> FALSE]

IsThere(chat_id, message_id) ==
    \E m \in sent : m.chat_id = chat_id /\ m.message_id = message_id

delete_message_results(chat_id, message_id) ==
    IF IsThere(chat_id, message_id) THEN {Ok} ELSE {MessageNotFound}

\* delete_message_callback(context) once delete_message returned `result`:
\* every exception is caught and logged as a warning.  Nothing is raised
\* and the job queue `queue` is left as it is.
delete_message_callback_retrying(queue, job, result, now) ==
    [raised |-> None,
     logged |-> IF result = Ok THEN "info" ELSE "warning",
     queue |-> IF result = Ok THEN queue
               ELSE schedule_message_deletion(queue, job, job.delay, now)]

delete_message_callback(queue, job, result, now) ==
    [raised |-> None,
     logged |-> IF result = Ok THEN "info" ELSE "warning",
     queue |-> queue]

CallbackReturned(job, result, outcome, now) ==
    [type |-> "returned", chat_id |-> job.chat_id, message_id |-> job.message_id,
     at |-> now, due |-> job.due, result |-> result, raised |-> outcome.raised,
     logged |-> outcome.logged]

\* A handler shows `text` in the chat, as a new message (target = NoMsg:
\* reply_text) or in place of the message `target` (edit_text, which needs
\* the message to be there and its text to change), and then calls
\* schedule_message_deletion on the message returned.  A show that raises
\* ends the handler before anything is scheduled.
ShowAndSchedule(chat_id, target, text, delay_seconds) ==
    /\ Registrations < MaxRegistrations
    /\ elapsed + delay_seconds <= MaxElapsed
    /\ IF target = NoMsg
       THEN /\ next_message_id <= MaxMessages
            /\ sent' = sent \cup {Message(chat_id, next_message_id, text)}
            /\ next_message_id' = next_message_id + 1
       ELSE /\ \E m \in sent :
                  /\ m.chat_id = chat_id /\ m.message_id = target /\ m.text # text
                  /\ sent' = (sent \ {m}) \cup {Message(chat_id, target, text)}
            /\ UNCHANGED next_message_id
    /\ LET message == Message(chat_id, IF target = NoMsg THEN next_message_id ELSE target, text)
       IN  /\ jobs' = schedule_message_deletion(jobs, message, delay_seconds, elapsed)
           /\ history' = Log(history, Registered(message, delay_seconds, elapsed))
    /\ UNCHANGED <<caller_vars, handler_vars, service_vars, elapsed, callbacks, disk_vars, store_vars, clock_vars, pinned,
                   campaign_vars, helper_vars>>

\* handlers/conversations.py game_start
GameStart(chat_id, target) ==
    ShowAndSchedule(chat_id, target, game_prompt, default_delay_seconds)

\* handlers/conversations.py cancel_conversation
CancelConversation(chat_id, target) ==
    ShowAndSchedule(chat_id, target, cancelled_text, cancel_delay_seconds)

\* The job queue runs a job that is due: a run_once job leaves the queue,
\* and delete_message_callback runs up to its await of delete_message.
JobFires(job) ==
    /\ job \in jobs
    /\ job.due <= elapsed
    /\ jobs' = jobs \ {job}
    /\ callbacks' = callbacks \cup {job}
    /\ history' = Log(history, DeleteCalled(job, elapsed))
    /\ UNCHANGED <<caller_vars, handler_vars, service_vars, elapsed, disk_vars, store_vars, clock_vars, sent, pinned,
                   next_message_id, campaign_vars, helper_vars>>

\* delete_message returns to the callback, which ends.
DeleteMessageReturns(job, result) ==
    /\ job \in callbacks
    /\ result \in delete_message_results(job.chat_id, job.message_id)
    /\ LET outcome == delete_message_callback(jobs, job, result, elapsed)
           gone(m) == result = Ok /\ m.chat_id = job.chat_id /\ m.message_id = job.message_id
       IN  /\ jobs' = outcome.queue
           /\ history' = Log(history, CallbackReturned(job, result, outcome, elapsed))
           /\ sent' = {m \in sent : ~gone(m)}
           /\ pinned' = {m \in pinned : ~gone(m)}
    /\ callbacks' = callbacks \ {job}
    /\ UNCHANGED <<caller_vars, handler_vars, service_vars, elapsed, disk_vars, store_vars, clock_vars, next_message_id,
                   campaign_vars, helper_vars>>

\* Somebody in the chat deletes a message whose deletion the bot has
\* scheduled.
MessageRemoved(message) ==
    /\ message \in sent
    /\ \E job \in jobs \cup callbacks : SameMessage(job, message)
    /\ sent' = sent \ {message}
    /\ pinned' = {m \in pinned : ~(m.chat_id = message.chat_id /\ m.message_id = message.message_id)}
    /\ UNCHANGED <<caller_vars, handler_vars, service_vars, lifecycle_vars, disk_vars, store_vars, clock_vars, next_message_id,
                   jobs, campaign_vars, helper_vars>>

\* Time passes, up to the fire time of the next job: the instants at which
\* something happens are the start and the fire times.  A job that is due
\* runs before time moves on.
LifecycleTick ==
    /\ \A job \in jobs : job.due > elapsed
    /\ \E next \in jobs :
          /\ \A job \in jobs : job.due >= next.due
          /\ elapsed' = next.due
    /\ UNCHANGED <<caller_vars, handler_vars, service_vars, history, callbacks, disk_vars, store_vars, clock_vars, platform_vars,
                   campaign_vars, helper_vars>>

NextMessageLifecycle ==
    \/ \E chat_id \in ChatIds, target \in 0..MaxMessages : GameStart(chat_id, target)
    \/ \E chat_id \in ChatIds, target \in 0..MaxMessages : CancelConversation(chat_id, target)
    \/ \E job \in jobs : JobFires(job)
    \/ \E job \in callbacks, result \in {Ok, MessageNotFound} :
           DeleteMessageReturns(job, result)
    \/ \E message \in sent : MessageRemoved(message)
    \/ LifecycleTick

\* The lifecycle never reads the stores: one store is enough.
InitMessageLifecycle ==
    /\ Init
    /\ users_data = [u1 |-> Profile("G1", "08:00", TRUE)]
    /\ group_chats_data = [c1 |-> Binding("G1")]

\* The clock runs and the job queue runs the jobs that are due.
SpecMessageLifecycle ==
    /\ InitMessageLifecycle
    /\ [][NextMessageLifecycle]_vars
    /\ WF_vars(LifecycleTick)
    /\ WF_vars(\E job \in jobs : JobFires(job))
    /\ WF_vars(\E job \in callbacks, result \in {Ok, MessageNotFound} :
                  DeleteMessageReturns(job, result))

(***************************************************************************)
(* data_manager.py: the DataManager process over the disk.  The process    *)
(* starts by loading the collections, serves update_user and               *)
(* update_group_chat, and can be interrupted at any point; _save_json_file *)
(* is followed step by step (the temporary file is opened, written,        *)
(* and moved over the target).  The timetable file is taken as loaded.     *)
(***************************************************************************)
\* An access of the in-memory collection `collection` ("users", "schedule",
\* "group_chats"), with the locks of _file_locks held at that point.
Access(collection, mode, locks) ==
    [collection |-> collection, mode |-> mode, locks |-> locks]

\* _load_all_data: each _load_..._data assigns its collection inside
\* `with _file_locks[...]`; a load that raises ends the sequence.
accesses_of_load(users_raised) ==
    {Access("users", "write", {"users"})}
        \cup (IF users_raised THEN {}
              ELSE {Access("schedule", "write", {"schedule"}),
                    Access("group_chats", "write", {"group_chats"})})

\* update_user / update_group_chat on `collection`: the entry is read
\* (get_user, get_group_chat) and, when the merged fields are valid,
\* assigned before any lock is taken; save_..._data then reads the
\* collection inside `with _file_locks[collection]`.
accesses_of_update(collection, saves) ==
    {Access(collection, "read", {})}
        \cup (IF saves
              THEN {Access(collection, "write", {}), Access(collection, "read", {collection})}
              ELSE {})

\* int(datetime.now().timestamp()) at the load.
load_timestamp == "1762264800"

\* The process is not running.
Down == [pc |-> "down"]

\* The process at `pc` in (or after) the call `call` for the entry `id` with
\* the keyword arguments `kwargs`; `filepath` and `document` are what the
\* save writes, `returned` what the call returned, `before` the collection
\* as the call found it.
Frame(pc, call, id, kwargs, filepath, document, returned) ==
    [pc |-> pc, call |-> call, id |-> id, kwargs |-> kwargs, filepath |-> filepath,
     document |-> document, returned |-> returned, raised |-> None, before |-> EmptyDict]

\* The contents users.json and group_chats.json can have when the process
\* starts; Missing stands for a file that is not there.
Missing == [kind |-> "missing"]

InitialUsersFiles ==
    { Missing,
      JsonObject([u1 |-> Profile("G1", "08:00", TRUE).fields]),
      JsonObject([u1 |-> [group |-> "G1", reminder_time |-> "25:00"]]),
      [kind |-> "array"], [kind |-> "not_json"], [kind |-> "not_utf8"] }

InitialGroupChatsFiles ==
    { Missing, JsonObject([c1 |-> Binding("G1").fields]),
      [kind |-> "array"], [kind |-> "not_json"] }

InitialDisks ==
    { [path \in {p \in {USERS_FILE, GROUP_CHATS_FILE} :
                    (IF p = USERS_FILE THEN u ELSE c) # Missing} |->
          IF path = USERS_FILE THEN u ELSE c] :
        u \in InitialUsersFiles, c \in InitialGroupChatsFiles }

\* Before the process has started.
InitStore ==
    /\ users_data = EmptyDict
    /\ group_chats_data = EmptyDict
    /\ fs \in InitialDisks
    /\ dm = Down
    /\ accessed = {}
    /\ svc = NoCall
    /\ dispatched = NoUpdate
    /\ held = NoSnapshot
    /\ clock = 1
    /\ sent = {}
    /\ pinned = {}
    /\ next_message_id = 1
    /\ jobs = {}
    /\ ms = Idle
    /\ dr = Idle
    /\ nl = Idle
    /\ nlp = Idle
    /\ nlg = Idle
    /\ ssm = [c \in ChatIds |-> Idle]
    /\ ssr = [u \in UserIds |-> Idle]
    /\ elapsed = 0
    /\ history = << >>
    /\ callbacks = {}

\* DataManager() at the import of data_manager: _load_all_data loads the
\* users and then the group chats.  An exception of a load ends the import.
load_all_data(files, timestamp) ==
    LET users == load_users_data(files, timestamp)
        chats == load_group_chats_data(users.files, timestamp)
    IN  IF users.raised # None
        THEN [raised |-> users.raised, users |-> EmptyDict, chats |-> EmptyDict,
              files |-> users.files]
        ELSE [raised |-> chats.raised, users |-> users.collection,
              chats |-> chats.collection, files |-> chats.files]

Startup ==
    /\ dm = Down
    /\ LET loaded == load_all_data(fs, load_timestamp)
       IN  /\ users_data' = loaded.users
           /\ group_chats_data' = loaded.chats
           /\ fs' = loaded.files
           /\ accessed' = accesses_of_load(load_users_data(fs, load_timestamp).raised # None)
           /\ dm' = IF loaded.raised # None
                    THEN [pc |-> "failed", raised |-> loaded.raised]
                    ELSE Frame("idle", "load", None, EmptyDict, None, None, None)
    /\ UNCHANGED <<caller_vars, handler_vars, service_vars, lifecycle_vars, clock_vars, platform_vars, campaign_vars, helper_vars>>

\* _save_json_file(filepath, document), up to the end of open(temp_path, "w"):
\* the temporary file is there and holds nothing of the document yet.
open_temp(files, filepath, document) ==
    WriteFile(files, temp_path(filepath), Torn(document.data))

\* The keyword arguments the callers pass.
UserUpdates ==
    { [reminder_time |-> "09:30"], [reminder_time |-> "25:00"] }

GroupChatUpdates ==
    { [default_group |-> "G2"], [last_schedule_sent |-> "yesterday"] }

\* update_user(user_id, **kwargs), up to the open of the temporary file, or
\* to its return when the merged fields are not valid.
UpdateUser(user_id, kwargs) ==
    /\ dm.pc = "idle"
    /\ LET updated == update_user(users_data, user_id, << >>, kwargs)
           document == saved_document(updated.users)
       IN  /\ accessed' = accesses_of_update("users", updated.saves)
           /\ IF updated.saves
              THEN /\ users_data' = updated.users
                   /\ fs' = open_temp(fs, USERS_FILE, document)
                   /\ dm' = [Frame("write", "update_user", user_id, kwargs, USERS_FILE,
                                   document, None) EXCEPT !.before = users_data]
              ELSE /\ dm' = [Frame("idle", "update_user", user_id, kwargs, None, None,
                                   updated.returned) EXCEPT !.before = users_data]
                   /\ UNCHANGED <<users_data, fs>>
    /\ UNCHANGED <<caller_vars, handler_vars, service_vars, lifecycle_vars, group_chats_data, clock_vars, platform_vars,
                   campaign_vars, helper_vars>>

\* update_group_chat(chat_id, **kwargs), likewise.
UpdateGroupChat(chat_id, kwargs) ==
    /\ dm.pc = "idle"
    /\ LET updated == update_group_chat(group_chats_data, chat_id, << >>, kwargs)
           document == saved_document(updated.chats)
       IN  /\ accessed' = accesses_of_update("group_chats", updated.saves)
           /\ IF updated.saves
              THEN /\ group_chats_data' = updated.chats
                   /\ fs' = open_temp(fs, GROUP_CHATS_FILE, document)
                   /\ dm' = [Frame("write", "update_group_chat", chat_id, kwargs,
                                   GROUP_CHATS_FILE, document, None)
                                EXCEPT !.before = group_chats_data]
              ELSE /\ dm' = [Frame("idle", "update_group_chat", chat_id, kwargs, None, None,
                                   updated.returned)
                                EXCEPT !.before = group_chats_data]
                   /\ UNCHANGED <<group_chats_data, fs>>
    /\ UNCHANGED <<caller_vars, handler_vars, service_vars, lifecycle_vars, users_data, clock_vars, platform_vars,
                   campaign_vars, helper_vars>>

\* json.dump into the temporary file ends: the document is written whole and
\* the file closed, or the write raises (the disk is full), _save_json_file
\* logs the error and the call returns False.
SaveWritten(written) ==
    /\ dm.pc = "write"
    /\ IF written
       THEN /\ fs' = WriteFile(fs, temp_path(dm.filepath), dm.document)
            /\ dm' = [dm EXCEPT !.pc = "replace"]
       ELSE /\ dm' = [dm EXCEPT !.pc = "idle", !.returned = FALSE]
            /\ UNCHANGED fs
    /\ UNCHANGED <<caller_vars, handler_vars, service_vars, accessed, lifecycle_vars, store_vars, clock_vars, platform_vars,
                   campaign_vars, helper_vars>>

\* temp_path.replace(file_path), and the call returns True.
SaveReplaced ==
    /\ dm.pc = "replace"
    /\ fs' = MoveFile(fs, temp_path(dm.filepath), dm.filepath)
    /\ dm' = [dm EXCEPT !.pc = "idle", !.returned = TRUE]
    /\ UNCHANGED <<caller_vars, handler_vars, service_vars, accessed, lifecycle_vars, store_vars, clock_vars, platform_vars,
                   campaign_vars, helper_vars>>

\* The process is interrupted: what it held in memory is lost, the disk
\* stays as it is.
Interrupted ==
    /\ dm.pc \in {"idle", "write", "replace"}
    /\ dm' = Down
    /\ users_data' = EmptyDict
    /\ group_chats_data' = EmptyDict
    /\ accessed' = {}
    /\ UNCHANGED <<caller_vars, handler_vars, service_vars, lifecycle_vars, fs, clock_vars, platform_vars, campaign_vars, helper_vars>>

NextStore ==
    \/ Startup
    \/ \E user_id \in UserIds, kwargs \in UserUpdates : UpdateUser(user_id, kwargs)
    \/ \E chat_id \in ChatIds, kwargs \in GroupChatUpdates : UpdateGroupChat(chat_id, kwargs)
    \/ \E written \in BOOLEAN : SaveWritten(written)
    \/ SaveReplaced
    \/ Interrupted

SpecStore == InitStore /\ [][NextStore]_vars

(***************************************************************************)
(* handlers/conversations.py and data_manager.py: the profiles of the      *)
(* users under the reminder-time conversation, update_user and the         *)
(* reminders sent to them.  The handlers work on                           *)
(* data_manager.users_data, which is the dict DataManager keeps.           *)
(***************************************************************************)
\* The texts datetime.strptime(text, "%H:%M") accepts: %H is one or two
\* digits up to 23, %M one or two digits up to 59.
StrptimeTimes ==
    { hour \o ":" \o minute :
        hour \in {TwoDigits(h) : h \in 0..23} \cup {Digits[h + 1] : h \in 0..9},
        minute \in {TwoDigits(m) : m \in 0..59} \cup {Digits[m + 1] : m \in 0..9} }

\* DataManager.save_users_data() with the file written in one step: the
\* document is built from model_dump(mode='json') of every entry, and an
\* entry without that method raises before anything is written.
save_users_data(users, files) ==
    IF get_all(users).raised # None
    THEN [raised |-> get_all(users).raised, files |-> files, returned |-> FALSE]
    ELSE [raised |-> None, files |-> WriteFile(files, USERS_FILE, saved_document(users)),
          returned |-> TRUE]

no_reply == [kind |-> "none"]
wrong_format_text == [kind |-> "wrong_format"]
time_set_text == [kind |-> "time_set"]
wrong_format_delay_seconds == 60

\* reminder_time_received for the text `time_text` of the user `user_id`,
\* up to its reply: a text strptime rejects is answered (ValueError) and the
\* conversation stays in SETTING_REMINDER_TIME; any other text is assigned
\* to users_data[user_id]["reminder_time"], in a new dict {} when the user
\* has no entry.  Item assignment on a UserModel raises TypeError, which is
\* no ValueError; save_users_data raises on the dict.
reminder_time_received(users, files, user_id, time_text) ==
    IF time_text \notin StrptimeTimes
    THEN [raised |-> None, users |-> users, files |-> files, reply |-> wrong_format_text,
          delay_seconds |-> wrong_format_delay_seconds, returned |-> "SETTING_REMINDER_TIME"]
    ELSE LET entered == [u \in (DOMAIN users) \cup {user_id} |->
                            IF u \in DOMAIN users THEN users[u]
                            ELSE [cls |-> "dict", fields |-> EmptyDict]]
             assigned == [entered EXCEPT ![user_id].fields =
                             Update(@, [reminder_time |-> time_text])]
             saved == save_users_data(assigned, files)
         IN  IF entered[user_id].cls # "dict"
             THEN [raised |-> "TypeError", users |-> entered, files |-> files,
                   reply |-> no_reply, delay_seconds |-> 0, returned |-> None]
             ELSE IF saved.raised # None
             THEN [raised |-> saved.raised, users |-> assigned, files |-> files,
                   reply |-> no_reply, delay_seconds |-> 0, returned |-> None]
             ELSE [raised |-> None, users |-> assigned, files |-> saved.files,
                   reply |-> time_set_text, delay_seconds |-> default_delay_seconds,
                   returned |-> "END"]

\* The texts the users type.
TimeTexts == {"09:30", "9:5", "25:00"}

\* The dispatcher gives the text of a user who is in the state
\* SETTING_REMINDER_TIME to reminder_time_received; the reply is a new
\* message of the private chat, whose deletion is scheduled.
ReminderTimeReceived(user_id, time_text) ==
    /\ LET outcome == reminder_time_received(users_data, fs, user_id, time_text)
       IN  /\ users_data' = outcome.users
           /\ fs' = outcome.files
           /\ dispatched' = [handler |-> "reminder_time_received", user_id |-> user_id,
                             time_text |-> time_text,
                             raised |-> outcome.raised, returned |-> outcome.returned]
           /\ IF outcome.reply = no_reply
              THEN UNCHANGED <<sent, jobs, next_message_id, history>>
              ELSE /\ next_message_id <= MaxMessages
                   /\ LET message == Message(user_id, next_message_id, outcome.reply)
                      IN  /\ sent' = sent \cup {message}
                          /\ jobs' = schedule_message_deletion(jobs, message,
                                                               outcome.delay_seconds, elapsed)
                          /\ history' = Log(history, Registered(message, outcome.delay_seconds,
                                                                elapsed))
                   /\ next_message_id' = next_message_id + 1
    /\ UNCHANGED <<caller_vars, service_vars, elapsed, callbacks, dm, accessed, group_chats_data, clock_vars,
                   pinned, campaign_vars, helper_vars>>

\* A handler calls data_manager.update_user(user_id, **kwargs): the whole
\* call, save_users_data included.
ProfileUpdate(user_id, kwargs) ==
    /\ LET updated == update_user(users_data, user_id, << >>, kwargs)
           saved == save_users_data(updated.users, fs)
       IN  /\ users_data' = updated.users
           /\ fs' = IF updated.saves THEN saved.files ELSE fs
           /\ dispatched' = [handler |-> "update_user", user_id |-> user_id,
                             raised |-> IF updated.saves THEN saved.raised ELSE updated.raised,
                             returned |-> IF updated.saves THEN saved.returned
                                          ELSE updated.returned]
    /\ UNCHANGED <<caller_vars, service_vars, lifecycle_vars, dm, accessed, group_chats_data, clock_vars,
                   platform_vars, campaign_vars, helper_vars>>

\* config.ADMIN_IDS: the user ids of the administrators.
ADMIN_IDS == {"u1"}

\* The objects a handler is called with.
command_handlers == [cls |-> "CommandHandlers"]
UpdateFrom(user_id) == [cls |-> "Update", effective_user |-> user_id]
callback_context == [cls |-> "CallbackContext"]

admin_warning_text == [kind |-> "admin_only_warning"]
admin_help_text == [kind |-> "admin_help"]
admin_warning_delay_seconds == 30
admin_help_delay_seconds == 600

\* commands.admin_command is command_handlers.admin_command, a bound method
\* of the function admin_only returns: the call method(update, context)
\* passes the instance as the first positional argument.
bound_method_call(instance, arguments) == <<instance>> \o arguments

\* wrapped(update, context, *args, **kwargs) of admin_only around
\* admin_command, called with the positional arguments `arguments`: its
\* `update` is the first of them.  Reading effective_user of an object that
\* has none raises AttributeError; a caller outside ADMIN_IDS is answered
\* with the warning and the body is not called.
admin_only_wrapped(arguments) ==
    LET update == arguments[1]
    IN  IF "effective_user" \notin DOMAIN update
        THEN [raised |-> "AttributeError", reply |-> no_reply, delay_seconds |-> 0,
              body_ran |-> FALSE]
        ELSE IF update.effective_user \notin ADMIN_IDS
        THEN [raised |-> None, reply |-> admin_warning_text,
              delay_seconds |-> admin_warning_delay_seconds, body_ran |-> FALSE]
        ELSE [raised |-> None, reply |-> admin_help_text,
              delay_seconds |-> admin_help_delay_seconds, body_ran |-> TRUE]

\* The dispatcher gives the /admin command of a user to
\* commands.admin_command(update, context).
AdminCommand(user_id) ==
    /\ LET outcome == admin_only_wrapped(
                          bound_method_call(command_handlers,
                                            <<UpdateFrom(user_id), callback_context>>))
       IN  /\ dispatched' = [handler |-> "admin_command", user_id |-> user_id,
                             raised |-> outcome.raised, returned |-> None,
                             body_ran |-> outcome.body_ran]
           /\ IF outcome.reply = no_reply
              THEN UNCHANGED <<sent, jobs, next_message_id, history>>
              ELSE /\ next_message_id <= MaxMessages
                   /\ LET message == Message(user_id, next_message_id, outcome.reply)
                      IN  /\ sent' = sent \cup {message}
                          /\ jobs' = schedule_message_deletion(jobs, message,
                                                               outcome.delay_seconds, elapsed)
                          /\ history' = Log(history, Registered(message, outcome.delay_seconds,
                                                                elapsed))
                   /\ next_message_id' = next_message_id + 1
    /\ UNCHANGED <<caller_vars, service_vars, elapsed, callbacks, disk_vars, store_vars, clock_vars,
                   pinned, campaign_vars, helper_vars>>

NextProfiles ==
    \/ \E user_id \in UserIds, time_text \in TimeTexts : ReminderTimeReceived(user_id, time_text)
    \/ \E user_id \in UserIds, kwargs \in UserUpdates : ProfileUpdate(user_id, kwargs)
    \/ \E user_id \in UserIds : SendSimpleReminderCall(user_id)
    \/ \E user_id \in UserIds, result \in CallResults : SendSimpleReminderSent(user_id, result)
    \/ \E user_id \in UserIds : SendSimpleReminderEnd(user_id)

\* The session starts with one user registered.
InitProfiles ==
    /\ Init
    /\ users_data = [u1 |-> Profile("G1", "08:00", TRUE)]
    /\ group_chats_data = [c1 |-> Binding("G1")]

SpecProfiles == InitProfiles /\ [][NextProfiles]_vars

\* The handlers the dispatcher runs on the updates of the users.
NextHandlers ==
    \/ \E user_id \in UserIds : AdminCommand(user_id)
    \/ \E user_id \in UserIds, time_text \in TimeTexts : ReminderTimeReceived(user_id, time_text)
    \/ \E user_id \in UserIds, kwargs \in UserUpdates : ProfileUpdate(user_id, kwargs)

SpecHandlers == InitProfiles /\ [][NextHandlers]_vars

(***************************************************************************)
(* The callers of get_all_users_data and get_all_group_chats: the dispatch *)
(* engine takes the dicts, and writes and deletes keys of a chat's dict    *)
(* (notifications.py 311-313, 360).                                        *)
(***************************************************************************)
\* The collection a get_all_* call reads.
collection_of(call, users, chats) ==
    IF call = "get_all_users_data" THEN users ELSE chats

\* The keys the callers write or delete, with the value written.
SnapshotWrites ==
    [get_all_users_data |-> [reminder_time |-> "09:30", active |-> FALSE],
     get_all_group_chats |-> [pinned_schedule_message_id |-> 1, enabled |-> FALSE]]

\* data_manager.get_all_users_data() / get_all_group_chats()
GetAll(call) ==
    /\ LET got == get_all_dicts(collection_of(call, users_data, group_chats_data))
       IN  held' = [call |-> call, raised |-> got.raised, value |-> got.value,
                    last |-> "returned"]
    /\ UNCHANGED <<handler_vars, service_vars, lifecycle_vars, disk_vars, store_vars,
                   clock_vars, platform_vars, campaign_vars, helper_vars>>

\* chat_info[key] = value on a dict of the result (notifications.py:360)
SnapshotSetItem(id, key) ==
    /\ held.call # "none"
    /\ id \in DOMAIN held.value
    /\ key \in DOMAIN SnapshotWrites[held.call]
    /\ LET dict == setitem(held.value[id], key, SnapshotWrites[held.call][key])
       IN  /\ held' = [held EXCEPT !.value[id] = dict, !.last = "setitem"]
           /\ users_data' = IF held.call = "get_all_users_data"
                            THEN written_through(users_data, id, dict) ELSE users_data
           /\ group_chats_data' = IF held.call = "get_all_group_chats"
                                  THEN written_through(group_chats_data, id, dict)
                                  ELSE group_chats_data
    /\ UNCHANGED <<handler_vars, service_vars, lifecycle_vars, disk_vars,
                   clock_vars, platform_vars, campaign_vars, helper_vars>>

\* `if key in chat_info: del chat_info[key]` (notifications.py:312-313)
SnapshotDelItem(id, key) ==
    /\ held.call # "none"
    /\ id \in DOMAIN held.value
    /\ key \in DOMAIN SnapshotWrites[held.call]
    /\ key \in DOMAIN held.value[id].items
    /\ LET dict == delitem(held.value[id], key)
       IN  /\ held' = [held EXCEPT !.value[id] = dict, !.last = "delitem"]
           /\ users_data' = IF held.call = "get_all_users_data"
                            THEN written_through(users_data, id, dict) ELSE users_data
           /\ group_chats_data' = IF held.call = "get_all_group_chats"
                                  THEN written_through(group_chats_data, id, dict)
                                  ELSE group_chats_data
    /\ UNCHANGED <<handler_vars, service_vars, lifecycle_vars, disk_vars,
                   clock_vars, platform_vars, campaign_vars, helper_vars>>

NextSnapshots ==
    \/ \E call \in DOMAIN SnapshotWrites : GetAll(call)
    \/ \E id \in UserIds \cup ChatIds, key \in {"reminder_time", "active", "pinned_schedule_message_id", "enabled"} :
          SnapshotSetItem(id, key)
    \/ \E id \in UserIds \cup ChatIds, key \in {"reminder_time", "active", "pinned_schedule_message_id", "enabled"} :
          SnapshotDelItem(id, key)
    \/ \E user_id \in UserIds, time_text \in TimeTexts : ReminderTimeReceived(user_id, time_text)
    \/ \E user_id \in UserIds, kwargs \in UserUpdates : ProfileUpdate(user_id, kwargs)

SpecSnapshots == InitProfiles /\ [][NextSnapshots]_vars

(***************************************************************************)
(* schedule_logic.py: the ScheduleService called on its own, with the      *)
(* arguments drawn from small sets.                                        *)
(***************************************************************************)
MaxDays == 21

\* data_manager.schedule_start_date: None, or the first day of the semester
\* (a Monday, day 0, or a Thursday, day 3).
StartDates ==
    { [configured |-> FALSE, date |-> 0], [configured |-> TRUE, date |-> 0],
      [configured |-> TRUE, date |-> 3] }

\* The groups asked for (G9 is in no catalog) and the weeks.
AskedGroups == {"G1", "G2", "G9"}
AskedWeeks == 1..3

\* The instants get_next_lesson is called at: Monday and Tuesday of week 1,
\* the Sunday after, Monday of week 2; around the starts of the slots.
AskedInstants ==
    { Instant(day, minute) : day \in {0, 1, 6, 7},
                             minute \in {0, 479, 480, 481, 560, 561, 569, 570, 760, 1200} }

GetCurrentWeek(start_date, target_date) ==
    /\ svc' = [call |-> "get_current_week", catalog |-> svc.catalog,
               start_date |-> start_date, target_date |-> target_date,
               returned |-> current_week(start_date, target_date)]
    /\ UNCHANGED <<caller_vars, handler_vars, lifecycle_vars, disk_vars, store_vars, clock_vars, platform_vars,
                   campaign_vars, helper_vars>>

GetDayLessons(group, day, week) ==
    /\ LET result == get_day_lessons_call(svc.catalog, group, day, week)
       IN  svc' = [call |-> "get_day_lessons", catalog |-> result.catalog,
                   group |-> group, day |-> day, week |-> week,
                   returned |-> result.returned]
    /\ UNCHANGED <<caller_vars, handler_vars, lifecycle_vars, disk_vars, store_vars, clock_vars, platform_vars,
                   campaign_vars, helper_vars>>

GetNextLesson(group, now) ==
    /\ svc' = [call |-> "get_next_lesson", catalog |-> svc.catalog,
               group |-> group, now |-> now, returned |-> get_next_lesson(group, now)]
    /\ UNCHANGED <<caller_vars, handler_vars, lifecycle_vars, disk_vars, store_vars, clock_vars, platform_vars,
                   campaign_vars, helper_vars>>

GetCurrentLesson(group, now) ==
    /\ svc' = [call |-> "get_current_lesson", catalog |-> svc.catalog,
               group |-> group, now |-> now, returned |-> get_current_lesson(group, now)]
    /\ UNCHANGED <<caller_vars, handler_vars, lifecycle_vars, disk_vars, store_vars, clock_vars, platform_vars,
                   campaign_vars, helper_vars>>

NextScheduleService ==
    \/ \E start_date \in StartDates, target_date \in (0 - MaxDays) .. MaxDays :
           GetCurrentWeek(start_date, target_date)
    \/ \E group \in AskedGroups, weekday \in 0..6, week \in AskedWeeks :
           GetDayLessons(group, DayName(weekday), week)
    \/ \E group \in AskedGroups, now \in AskedInstants : GetNextLesson(group, now)
    \/ \E group \in AskedGroups, now \in AskedInstants : GetCurrentLesson(group, now)

\* The service reads the catalog only: one store is enough.
InitScheduleService ==
    /\ Init
    /\ users_data = [u1 |-> Profile("G1", "08:00", TRUE)]
    /\ group_chats_data = [c1 |-> Binding("G1")]

SpecScheduleService == InitScheduleService /\ [][NextScheduleService]_vars

(***************************************************************************)
(* The properties.                                                         *)
(***************************************************************************)
\* The pinned-message id the store holds for chat_id (NoMsg: none).
StoredPinnedId(chat_id) ==
    IF chat_id \in DOMAIN group_chats_data
    THEN Get(model_dump(group_chats_data[chat_id]).value, "pinned_schedule_message_id", NoMsg)
    ELSE NoMsg

\* The pinned-message id the running digest cycle of chat_id has recorded in
\* its chat_info (NoMsg: none).
RecordedPinnedId(chat_id) ==
    IF ssm[chat_id].pc = "idle" THEN NoMsg
    ELSE Get(ssm[chat_id].chat_info, "pinned_schedule_message_id", NoMsg)

\* C1: a message id is recorded as a chat's pinned-message id, in the
\* chat_info the digest cycle works on or in the store, only when the send
\* call and the pin call for that message have both succeeded; when the send
\* succeeded and the pin failed, no pinned-message id is set to the new id.
C1_PinnedIdOnlyAfterSendAndPin ==
    \A chat_id \in ChatIds :
        \A m \in {StoredPinnedId(chat_id), RecordedPinnedId(chat_id)} \ {NoMsg} :
            /\ \E message \in sent : message.chat_id = chat_id /\ message.message_id = m
            /\ [chat_id |-> chat_id, message_id |-> m] \in pinned

\* C1's case: the send succeeded, the pin call raised, and the new id is
\* recorded nowhere.
C1_SendOkPinFailed ==
    \E chat_id \in ChatIds :
        /\ ssm[chat_id].pc = "done"
        /\ ssm[chat_id].send_result = "ok"
        /\ ssm[chat_id].pin_result \in {e.cls : e \in TelegramErrors}
        /\ ssm[chat_id].new_message_id # NoMsg
        /\ StoredPinnedId(chat_id) # ssm[chat_id].new_message_id
        /\ RecordedPinnedId(chat_id) # ssm[chat_id].new_message_id

\* C2: once the send call and the pin call of a digest cycle have both
\* succeeded and the cycle has ended, the store's entry of the chat holds the
\* id of the message just sent as its pinned-message id.
C2_StoreHoldsNewPinnedId ==
    \A chat_id \in ChatIds :
        (/\ ssm[chat_id].pc = "done"
         /\ ssm[chat_id].send_result = "ok"
         /\ ssm[chat_id].pin_result = "ok")
            => StoredPinnedId(chat_id) = ssm[chat_id].new_message_id

\* C3: every chat has at most one digest message pinned by the bot.
C3_AtMostOnePinnedDigest ==
    \A chat_id \in ChatIds :
        Cardinality({p \in pinned : p.chat_id = chat_id}) <= 1

\* C4: a profile for which a send has ended in Forbidden (the event that is
\* to mark it inactive) is not among the recipients the next-lesson campaign
\* would select from the store.
C4_ForbiddenProfileNotSelected ==
    \A user_id \in UserIds :
        (ssr[user_id].pc = "done" /\ ssr[user_id].send_result = "Forbidden")
            => user_id \notin DOMAIN get_users_for_next_lesson(users_data).value

\* C5: when a send to a user has ended in Forbidden, the user's profile in
\* the store has its active flag set to false.
C5_ForbiddenMarksInactive ==
    \A user_id \in UserIds :
        (ssr[user_id].pc = "done" /\ ssr[user_id].send_result = "Forbidden")
            => /\ user_id \in DOMAIN users_data
               /\ Get(model_dump(users_data[user_id]).value, "active", TRUE) = FALSE

\* C7: in a campaign run, whatever the order of the recipient tasks and
\* whichever of them fail, no selected recipient is dropped: each is still
\* to run or has run, and when the gather is complete each has run.
C7_FailureNeverAbortsBatch ==
    /\ ms.pc = "gather" =>
          /\ ms.pending \cup DOMAIN ms.results = DOMAIN ms.group_chats
          /\ GatherComplete(ms) => DOMAIN ms.results = DOMAIN ms.group_chats
    /\ nlp.pc = "gather" =>
          /\ nlp.pending \cup DOMAIN nlp.results = DOMAIN nlp.users_to_notify
          /\ GatherComplete(nlp) => DOMAIN nlp.results = DOMAIN nlp.users_to_notify
    /\ nlg.pc = "gather" =>
          /\ nlg.pending \cup DOMAIN nlg.results = nlg.tasks
          /\ GatherComplete(nlg) => DOMAIN nlg.results = nlg.tasks

\* C7's case: a batch of two recipients in which a task has failed and the
\* other recipient has been processed all the same.
C7_FailedTaskInCompleteBatch ==
    \E run \in {nlp, nlg} :
        /\ GatherComplete(run)
        /\ Cardinality(DOMAIN run.results) = 2
        /\ \E id \in DOMAIN run.results : run.results[id].logged # None

\* C8: the daily reminder run at minute t selects exactly the profiles that
\* are active, have the reminder flag set, have a group, and whose reminder
\* time is string-equal to t.
C8_DailySelectionExact ==
    dr.pc \in {"gather", "return"} =>
        /\ dr.raised = None
        /\ DOMAIN dr.users_to_notify =
              {u \in DOMAIN users_data :
                  LET profile == model_dump(users_data[u]).value
                  IN  /\ Get(profile, "active", TRUE)
                      /\ profile.reminder_enabled
                      /\ TruthyStr(profile.group)
                      /\ profile.reminder_time = dr.current_time}

\* C9: the next-lesson campaign goes on to its recipients only in a minute
\* whose HH:MM string is the end time of one of the eight lesson slots, on a
\* day with a weekday name, and the ordinal it uses is the pair number of
\* that slot; started in any other minute it leaves its state as it was; and
\* no step of it sends anything.
C9_AlertOnlyAtSlotEnd ==
    [][ /\ (nl.pc = "idle" /\ nl'.pc # "idle") =>
              /\ Len(LESSON_TIMES) = 8
              /\ DayName(Weekday(Today)) # None
              /\ nl'.current_time = FormatTime(Now)
              /\ nl'.current_lesson_num \in 1..Len(LESSON_TIMES)
              /\ LESSON_TIMES[nl'.current_lesson_num][2] = FormatTime(Now)
        /\ (nl.pc = "idle" /\ \A pair \in 1..Len(LESSON_TIMES) :
                                  LESSON_TIMES[pair][2] # FormatTime(Now))
              => (nl' = nl /\ nlp' = nlp /\ nlg' = nlg)
        /\ (clock' = clock) => (sent' = sent /\ users_data' = users_data
                                  /\ group_chats_data' = group_chats_data)
      ]_vars

\* C9's case: at 09:20, the end of slot 1, the campaign has gone on to its
\* recipients with ordinal 1.
C9_StartedAfterFirstSlot ==
    /\ nl.pc = "gather"
    /\ nl.current_time = "09:20"
    /\ nl.current_lesson_num = 1
    /\ nlp.pc = "gather"

\* The text the next-lesson campaign owes a recipient of `group`.
ExpectedNextLessonText(group) ==
    LET lessons == get_day_lessons(group, nl.day_name, nl.week)
        next_lesson == find_next_lesson(lessons, nl.current_lesson_num)
    IN  IF next_lesson.found THEN format_next_lesson_message(next_lesson.lesson)
        ELSE no_more_lessons_message

\* C10: when the next-lesson campaign has run after pair n, every eligible
\* recipient (each active profile with alerts enabled and a group, each chat
\* with a default group) has been sent exactly one message: the lesson with
\* the smallest pair number greater than n of the group today, or the
\* no-more-lessons message.
C10_EveryEligibleRecipientAlerted ==
    NextLessonComplete =>
        /\ \A u \in DOMAIN users_data :
              LET profile == model_dump(users_data[u]).value
              IN  (/\ Get(profile, "active", TRUE)
                   /\ profile.next_lesson_notification
                   /\ TruthyStr(profile.group))
                      => /\ Cardinality({m \in sent : m.chat_id = u}) = 1
                         /\ \A m \in sent :
                               m.chat_id = u => m.text = ExpectedNextLessonText(profile.group)
        /\ \A c \in DOMAIN group_chats_data :
              LET binding == model_dump(group_chats_data[c]).value
              IN  TruthyStr(binding.default_group)
                      => /\ Cardinality({m \in sent : m.chat_id = c}) = 1
                         /\ \A m \in sent :
                               m.chat_id = c => m.text = ExpectedNextLessonText(binding.default_group)


\* C11: in a morning digest run the task of a chat with no group bound ends
\* at once: it awaits no platform call (no send, pin, unpin or delete), it
\* raises and logs nothing, and the step leaves the delivered and pinned
\* messages and both chat-binding collections as they were.
C11_UnboundChatSkipped ==
    [][ \A chat_id \in ChatIds :
          (/\ ms'.pc = "gather"
           /\ chat_id \in DOMAIN ms'.results
           /\ ~TruthyStr(Get(ms'.group_chats[chat_id], "default_group", None)))
              => /\ ms'.results[chat_id] = Outcome(FALSE, None, None)
                 /\ (ms.pc = "gather" /\ chat_id \notin DOMAIN ms.results)
                       => /\ sent' = sent
                          /\ pinned' = pinned
                          /\ group_chats_data' = group_chats_data
      ]_vars

\* C11's case: the task of a chat with no group bound has run.
C11_UnboundChatTaskRan ==
    /\ ms.pc = "gather"
    /\ \E chat_id \in DOMAIN ms.results :
          /\ ms.group_chats[chat_id].default_group = None
          /\ ms.results[chat_id].awaits = None

\* C12: when a morning digest run is complete, every chat whose group has no
\* lesson today has been sent the no-lessons message, has nothing pinned,
\* and has no pinned-message id in the store.
C12_NoLessonsMessageSent ==
    GatherComplete(ms) =>
        \A chat_id \in DOMAIN ms.group_chats :
            LET group_name == ms.group_chats[chat_id].default_group
            IN  (/\ TruthyStr(group_name)
                 /\ get_day_lessons(group_name, ms.day_name, ms.week) = << >>)
                    => /\ \E m \in sent :
                             /\ m.chat_id = chat_id
                             /\ m.text = no_lessons_message(group_name, ms.day_name)
                       /\ \A p \in pinned : p.chat_id # chat_id
                       /\ StoredPinnedId(chat_id) = NoMsg

C15_OneJobPerMessage ==
    \A a, b \in jobs : SameMessage(a, b) => a = b

\* In the log of a message, the event at `j` registers a job while the job
\* registered at `i` has not fired.
ReRegistered(log, i, j) ==
    /\ i < j
    /\ log[i].type = "register" /\ log[j].type = "register"
    /\ \A k \in i + 1 .. j - 1 : log[k].type \notin {"register", "delete"}

\* Witness of C15: a job is pending for a message scheduled twice, the
\* second time while the first job was pending with another fire time.
C15_RescheduledWhilePending ==
    \E m \in DOMAIN history : \E i, j \in DOMAIN history[m] :
        /\ ReRegistered(history[m], i, j)
        /\ history[m][i].due # history[m][j].due
        /\ \E job \in jobs : SameMessage(job, history[m][j]) /\ job.due = history[m][j].due

\* In the log of a message, the delete calls that follow the registration
\* at `j`, up to the next registration.
DeleteCallsOf(log, j) ==
    { k \in j + 1 .. Len(log) :
        /\ log[k].type = "delete"
        /\ \A r \in j + 1 .. k - 1 : log[r].type # "register" }

\* The last registration or delete call in the log of a message, 0 when
\* there is none.
LastEvent(log) ==
    LET events == {k \in DOMAIN log : log[k].type \in {"register", "delete"}}
    IN  IF events = {} THEN 0 ELSE CHOOSE k \in events : \A other \in events : other <= k

MessageLog(chat_id, message_id) ==
    IF <<chat_id, message_id>> \in DOMAIN history
    THEN history[<<chat_id, message_id>>] ELSE << >>

ReRegisteredPending(chat_id, message_id) ==
    LET log == MessageLog(chat_id, message_id)
    IN  LastEvent(log) # 0 /\ \E i \in DOMAIN log : ReRegistered(log, i, LastEvent(log))

DeleteIssued(chat_id, message_id) ==
    LET log == MessageLog(chat_id, message_id)
    IN  LastEvent(log) # 0 /\ log[LastEvent(log)].type = "delete"

\* C16: when a job is registered for a message whose job has not fired,
\* at most one delete call follows for the message, at the fire time of the
\* later registration, and that one call is issued eventually.
C16_OneDeleteAtLaterFireTime ==
    /\ [](\A m \in DOMAIN history : \A i, j \in DOMAIN history[m] :
            ReRegistered(history[m], i, j) =>
                /\ Cardinality(DeleteCallsOf(history[m], j)) <= 1
                /\ \A k \in DeleteCallsOf(history[m], j) :
                      history[m][k].at = history[m][j].due)
    /\ \A chat_id \in ChatIds, message_id \in 1 .. MaxMessages :
          ReRegisteredPending(chat_id, message_id) ~> DeleteIssued(chat_id, message_id)

\* Witness of C16: a message registered twice before its job fired, with
\* two fire times, has had its delete call.
C16_DeletedAfterReRegistration ==
    \E m \in DOMAIN history : \E i, j \in DOMAIN history[m] :
        /\ ReRegistered(history[m], i, j)
        /\ history[m][i].due # history[m][j].due
        /\ DeleteCallsOf(history[m], j) # {}

\* C17: when delete_message fails in a deletion job because the message is
\* gone, the callback ends without raising, logs a warning, and the job
\* queue is as it was: the job is not registered again and no other job is
\* touched.
C17_FailedDeleteIsSwallowed ==
    [][ \A job \in callbacks :
          (job \notin callbacks' /\ ~IsThere(job.chat_id, job.message_id))
              => LET m == <<job.chat_id, job.message_id>>
                     last == history'[m][Len(history'[m])]
                 IN  /\ jobs' = jobs
                     /\ callbacks' = callbacks \ {job}
                     /\ sent' = sent
                     /\ Len(history'[m]) = Len(history[m]) + 1
                     /\ last.type = "returned"
                     /\ last.raised = None
                     /\ last.logged = "warning"
      ]_vars

\* Witness of C17: a callback has ended on "message to delete not found"
\* while another job was pending.
C17_DeleteFailedWithJobPending ==
    \E m \in DOMAIN history :
        LET last == history[m][Len(history[m])]
        IN  /\ last.type = "returned"
            /\ last.result = MessageNotFound
            /\ \E job \in jobs : ~SameMessage(job, last)

\* The fields update_user / update_group_chat merge: those of the entry (of
\* a default entry when there is none) overwritten by the keyword arguments.
MergedFields(collection, id, kwargs, defaults) ==
    Update(IF id \in DOMAIN collection THEN collection[id].fields ELSE defaults, kwargs)

\* The invariants of the entities: a reminder time, when there is one, is a
\* time of day (hours 0 to 23, minutes 00 to 59), and the instant of the
\* last digest, when there is one, is a datetime.
ViolatesInvariants(call, fields) ==
    IF call = "update_user"
    THEN fields.reminder_time # None /\ fields.reminder_time \notin MatchingTimes
    ELSE fields.last_schedule_sent \notin DatetimeValues \cup {None}

\* C18: a call of update_user or update_group_chat whose merged fields
\* violate the invariants of the entity returns False at once, leaving the
\* disk and both collections as they were.
C18_InvalidUpdateRejected ==
    [][ (/\ dm.pc = "idle"
         /\ dm'.pc \in {"idle", "write"}
         /\ dm'.call \in {"update_user", "update_group_chat"}
         /\ ViolatesInvariants(dm'.call,
                MergedFields(IF dm'.call = "update_user" THEN users_data ELSE group_chats_data,
                             dm'.id, dm'.kwargs,
                             IF dm'.call = "update_user" THEN UserModelDefaults
                             ELSE GroupChatModelDefaults)))
            => /\ dm'.pc = "idle"
               /\ dm'.returned = FALSE
               /\ fs' = fs
               /\ users_data' = users_data
               /\ group_chats_data' = group_chats_data
      ]_vars

\* Witness of C18: update_user with a malformed reminder time has returned
\* False for a user who had a reminder time, and has it still.
C18_MalformedTimeRejected ==
    /\ dm.pc = "idle"
    /\ dm.call = "update_user"
    /\ dm.kwargs = [reminder_time |-> "25:00"]
    /\ dm.returned = FALSE
    /\ dm.id \in DOMAIN users_data
    /\ users_data[dm.id].fields.reminder_time \in MatchingTimes

\* C19: whatever the step, interruptions included, a collection's file
\* holds afterwards what it held before, or the whole document of the save
\* that is replacing it; only the load moves a file aside.
C19_SaveIsAtomic ==
    [][ \A path \in {USERS_FILE, GROUP_CHATS_FILE} :
          dm.pc # "down" =>
              \/ path \notin DOMAIN fs /\ path \notin DOMAIN fs'
              \/ path \in DOMAIN fs /\ path \in DOMAIN fs' /\ fs'[path] = fs[path]
              \/ /\ dm.pc = "replace" /\ dm.filepath = path
                 /\ path \in DOMAIN fs' /\ fs'[path] = dm.document
      ]_vars

\* Witness of C19: the process was interrupted while the temporary file was
\* half written, and the file of the collection is a whole document.
C19_InterruptedWhileWriting ==
    /\ dm = Down
    /\ temp_path(USERS_FILE) \in DOMAIN fs
    /\ fs[temp_path(USERS_FILE)].kind = "torn"
    /\ USERS_FILE \in DOMAIN fs
    /\ fs[USERS_FILE].kind = "object"

\* A content that is not a collection's document.
Malformed(content) == content.kind # "object"

\* C20: the load at the start never raises; a collection whose file is
\* missing is empty afterwards, and a collection whose file is malformed is
\* empty afterwards, its file moved from its path to a name with the
\* timestamp.
C20_LoadNeverFails ==
    [][ dm = Down /\ dm' # Down =>
          /\ dm'.pc = "idle"
          /\ \A path \in {USERS_FILE, GROUP_CHATS_FILE} :
                LET loaded == IF path = USERS_FILE THEN users_data' ELSE group_chats_data'
                IN  /\ path \notin DOMAIN fs => loaded = EmptyDict
                    /\ (path \in DOMAIN fs /\ Malformed(fs[path])) =>
                          /\ loaded = EmptyDict
                          /\ path \notin DOMAIN fs'
                          /\ with_suffix(path, ".backup_" \o load_timestamp) \in DOMAIN fs'
      ]_vars

\* C21: every read and every write of an in-memory collection, the
\* assignment made by an update included, happens while the lock of that
\* collection is held, and no lock of another collection is held with it.
C21_EveryAccessUnderItsOwnLock ==
    \A access \in accessed : access.locks = {access.collection}

\* C22: the reminder time of every entry of the user collection is absent
\* or a 24-hour HH:MM text.
C22_ReminderTimeAbsentOrValid ==
    \A user_id \in DOMAIN users_data :
        LET reminder_time == Get(users_data[user_id].fields, "reminder_time", None)
        IN  reminder_time = None \/ TimePattern(reminder_time)

\* C23: the set of the user ids of the user collection never shrinks: no
\* update, conversation input or handling of a blocked user removes a
\* profile.
C23_ProfilesNeverDeleted ==
    [][(DOMAIN users_data) \subseteq (DOMAIN users_data')]_vars

\* Witness of C23: the send to a user was refused with Forbidden, a handler
\* has run in the session, and the profile of that user and of another are
\* in the collection.
C23_BlockedUserStillStored ==
    \E user_id \in DOMAIN users_data :
        /\ ssr[user_id].pc = "done"
        /\ ssr[user_id].send_result = "Forbidden"
        /\ (DOMAIN users_data) \ {user_id} # {}
        /\ dispatched.handler # "none"

\* C24: _send_simple_reminder calls send_message once: whatever the call
\* returns or raises, the helper ends without calling it again.
C24_OneSendAttempt ==
    [][ \A user_id \in UserIds :
          (ssr[user_id].pc = "send_message" /\ ssr'[user_id] # ssr[user_id])
              => (ssr'[user_id].pc = "done" /\ ssr'[user_id].attempts = 1)
      ]_vars

\* Witness of C24: the helper has ended after a send that timed out.
C24_EndedAfterFailedSend ==
    \E user_id \in UserIds :
        /\ ssr[user_id].pc = "done"
        /\ ssr[user_id].send_result = "TimedOut"
        /\ ssr[user_id].attempts = 1

\* C26: a send that raises an error other than Forbidden changes no
\* collection and no file, ends the helper without an exception and leaves
\* the sends to the other recipients as they are.
C26_TransientErrorChangesNothing ==
    [][ \A user_id \in UserIds :
          (/\ ssr[user_id].pc = "send_message"
           /\ ssr'[user_id].pc = "done"
           /\ ssr'[user_id].send_result \in {"BadRequest", "TimedOut"})
              => /\ users_data' = users_data
                 /\ group_chats_data' = group_chats_data
                 /\ fs' = fs
                 /\ ssr'[user_id].raised = None
                 /\ \A other \in UserIds \ {user_id} : ssr'[other] = ssr[other]
      ]_vars

\* Witness of C26: the send to one user has failed with another error than
\* Forbidden while the send to another user is under way.
C26_FailedWhileAnotherIsSending ==
    \E user_id, other \in UserIds :
        /\ ssr[user_id].pc = "done"
        /\ ssr[user_id].send_result \in {"BadRequest", "TimedOut"}
        /\ ssr[other].pc = "send_message"

\* C27: on a Sunday, send_morning_schedule run at its time of day starts no
\* task: the campaign stays idle, no message is pinned or unpinned and the
\* group chats are as they were, whatever chats are bound.
C27_NoDigestOnSunday ==
    [][ (Weekday(Today) = 6 /\ FormatTime(Now) = morning_time /\ ms.pc = "idle")
          => (ms' = ms /\ pinned' = pinned /\ group_chats_data' = group_chats_data)
      ]_vars

\* Witness of C27: it is Sunday 07:00, no digest is running and a chat is
\* bound to a group.
C27_SundayMorningWithBoundChat ==
    /\ Weekday(Today) = 6
    /\ FormatTime(Now) = morning_time
    /\ ms.pc = "idle"
    /\ \E chat_id \in DOMAIN group_chats_data :
          TruthyStr(group_chats_data[chat_id].fields.default_group)

WholeWeeks(days) ==
    CHOOSE q \in (0 - MaxDays - 14) .. (MaxDays + 14) : 7 * q <= days /\ days < 7 * q + 7

ParityWeek(days) ==
    IF \E k \in (0 - MaxDays - 14) .. (MaxDays + 14) : WholeWeeks(days) = 2 * k THEN 1 ELSE 2

\* C28: with a semester start configured, get_current_week(d) is the number
\* of whole weeks from the start to d, rounded down, mod 2, plus 1, for d
\* before and after the start: it is 1 or 2 and the same 14 days later;
\* with no start configured it is 1.
C28_WeekParity ==
    svc.call = "get_current_week" =>
        IF svc.start_date.configured
        THEN /\ svc.returned = ParityWeek(svc.target_date - svc.start_date.date)
             /\ svc.returned \in {1, 2}
             /\ current_week(svc.start_date, svc.target_date + 14) = svc.returned
        ELSE svc.returned = 1

\* Witness of C28: the week of the day before the start is 2.
C28_DayBeforeStart ==
    /\ svc.call = "get_current_week"
    /\ svc.start_date.configured
    /\ svc.target_date = svc.start_date.date - 1
    /\ svc.returned = 2

\* How often `lesson` occurs in the list `lessons`.
Count(lessons, lesson) == Cardinality({i \in DOMAIN lessons : lessons[i] = lesson})

\* What the catalog lists for a group and weekday.
Listed(catalog, group, day) ==
    IF group \in DOMAIN catalog /\ day \in DOMAIN catalog[group]
    THEN catalog[group][day] ELSE << >>

InWeek(lesson, week) == \E i \in DOMAIN lesson.weeks : lesson.weeks[i] = week

\* C29: get_day_lessons returns the lessons the catalog lists for the group
\* and weekday whose weeks contain the week, each as often as listed and no
\* other, in ascending order of pair number; the catalog is as it was, and
\* the same call made again returns the same list.
C29_DayLessonsFilteredAndSorted ==
    [][ svc'.call = "get_day_lessons" =>
          LET listed == Listed(svc.catalog, svc'.group, svc'.day)
              returned == svc'.returned
          IN  /\ \A i, j \in DOMAIN returned : i < j => returned[i].pair <= returned[j].pair
              /\ \A i \in DOMAIN listed :
                    Count(returned, listed[i])
                        = IF InWeek(listed[i], svc'.week) THEN Count(listed, listed[i]) ELSE 0
              /\ \A i \in DOMAIN returned : Count(listed, returned[i]) > 0
              /\ svc'.catalog = svc.catalog
              /\ get_day_lessons_call(svc'.catalog, svc'.group, svc'.day, svc'.week).returned
                    = returned
      ]_vars

\* Witness of C29: a list of two lessons was returned in another order than
\* the catalog lists them.
C29_ReorderedList ==
    /\ svc.call = "get_day_lessons"
    /\ Len(svc.returned) = 2
    /\ \E i, j \in DOMAIN Listed(svc.catalog, svc.group, svc.day) :
          /\ i < j
          /\ Listed(svc.catalog, svc.group, svc.day)[i] = svc.returned[2]
          /\ Listed(svc.catalog, svc.group, svc.day)[j] = svc.returned[1]

\* The minutes of the day at which the slots 1 to 8 start.
SlotStartMinutes == <<480, 570, 670, 760, 850, 940, 1030, 1120>>

\* The lessons of the group on the weekday and in the parity week of `now`
\* that start after now's time of day.
LessonsAhead(group, now) ==
    LET listed == Listed(schedule_groups, group, DAYS_UA[(now.day % 7) + 1])
    IN  { listed[i] : i \in { k \in DOMAIN listed :
              /\ InWeek(listed[k], ParityWeek(now.day - schedule_start_date.date))
              /\ SlotStartMinutes[listed[k].pair] > now.minute } }

SlotEndMinutes == <<560, 650, 750, 840, 930, 1020, 1110, 1200>>

\* The lessons of the group on the weekday and in the parity week of `now`
\* whose slot, both of its boundary minutes included, holds now's time.
LessonsRunning(group, now) ==
    LET listed == Listed(schedule_groups, group, DAYS_UA[(now.day % 7) + 1])
    IN  { listed[i] : i \in { k \in DOMAIN listed :
              /\ InWeek(listed[k], ParityWeek(now.day - schedule_start_date.date))
              /\ SlotStartMinutes[listed[k].pair] <= now.minute
              /\ now.minute <= SlotEndMinutes[listed[k].pair] } }

C32_NonAdminIsWarned ==
    (dispatched.handler = "admin_command" /\ dispatched.user_id \notin ADMIN_IDS)
        => /\ ~dispatched.body_ran
           /\ dispatched.raised = None
           /\ \E message \in sent :
                 /\ message.chat_id = dispatched.user_id
                 /\ message.text = admin_warning_text
                 /\ \E job \in jobs : SameMessage(job, message) /\ job.delay = 30

\* C33: after reminder_time_received, a text that is no HH:MM time has
\* left the conversation in SETTING_REMINDER_TIME, and a text that is one
\* has ended the conversation with the text as the reminder time of the
\* user, in the collection and in the users file.
C33_ValidTimeStoredAndPersisted ==
    dispatched.handler = "reminder_time_received" =>
        IF TimePattern(dispatched.time_text)
        THEN /\ dispatched.raised = None
             /\ dispatched.returned = "END"
             /\ dispatched.user_id \in DOMAIN users_data
             /\ Get(users_data[dispatched.user_id].fields, "reminder_time", None)
                   = dispatched.time_text
             /\ USERS_FILE \in DOMAIN fs
             /\ fs[USERS_FILE] = saved_document(users_data)
        ELSE /\ dispatched.raised = None
             /\ dispatched.returned = "SETTING_REMINDER_TIME"

\* C34: when update_user or update_group_chat has returned True, loading
\* the file of the collection gives the collection that is in memory; when
\* it has returned False, the collection in memory is the one the call
\* found.
C34_MemoryAndDiskAgree ==
    (dm.pc = "idle" /\ dm.call \in {"update_user", "update_group_chat"}) =>
        LET memory == IF dm.call = "update_user" THEN users_data ELSE group_chats_data
            loaded == IF dm.call = "update_user"
                      THEN load_users_data(fs, load_timestamp)
                      ELSE load_group_chats_data(fs, load_timestamp)
        IN  IF dm.returned
            THEN loaded.raised = None /\ loaded.collection = memory
            ELSE memory = dm.before

\* C35: a step that writes or deletes a key of a dict get_all_users_data or
\* get_all_group_chats returned changes neither collection of the store,
\* nor the documents a save of the collections writes, nor the files.
C35_SnapshotsAreDetached ==
    [][(held' # held /\ held'.last \in {"setitem", "delitem"}) =>
          /\ users_data' = users_data
          /\ group_chats_data' = group_chats_data
          /\ saved_document(users_data') = saved_document(users_data)
          /\ saved_document(group_chats_data') = saved_document(group_chats_data)
          /\ fs' = fs]_vars

\* The caller holds a chat's dict with a pinned id written and a field
\* deleted, and the store's entry of the chat has neither change.
C35_ChangedSnapshotOfChat ==
    /\ held.call = "get_all_group_chats"
    /\ held.last = "delitem"
    /\ "c1" \in DOMAIN held.value
    /\ Get(held.value["c1"].items, "pinned_schedule_message_id", NoMsg) = 1
    /\ "enabled" \notin DOMAIN held.value["c1"].items
    /\ model_dump(group_chats_data["c1"]).value = Binding("G1").fields

\* C36: a daily reminder task of a profile describes tomorrow: it sends the
\* lessons of the profile's group for tomorrow's weekday in the parity week
\* of tomorrow's date, or the free-day message when the group has no such
\* lesson.
C36_ReminderDescribesTomorrow ==
    \A user_id \in UserIds :
        (ssr[user_id].pc # "idle" /\ "tomorrow" \in DOMAIN ssr[user_id]) =>
            LET frame == ssr[user_id]
                day_name == DAYS_UA[(frame.tomorrow % 7) + 1]
                week == ParityWeek(frame.tomorrow - schedule_start_date.date)
                lessons == get_day_lessons(frame.user_group, day_name, week)
            IN  /\ frame.pc = "send_message"
                /\ frame.text = IF lessons = << >> THEN free_day_text
                                ELSE daily_reminder_text(
                                         format_schedule_text(frame.user_group, day_name,
                                                              lessons, week).value)

====
